---- MODULE Spec2Model ----
(***************************************************************************)
(* Doc2Mcp: the deep-research search loop of DocSearchAgent                *)
(* (doc2mcp/agents/doc_search.py) over the page cache (doc2mcp/cache.py)   *)
(* and the sitemap index (doc2mcp/sitemap_index.py).                       *)
(*                                                                         *)
(* One behaviour is one search call on a freshly constructed agent.  The   *)
(* steps of the call are cut at its suspension points: the entry up to the *)
(* loop, the loop head up to the fetch, the return of the fetch, the       *)
(* return of the navigator with the synchronous rest of the iteration, and *)
(* the part after the loop.                                                *)
(*                                                                         *)
(* Texts are abstract: a title or summary is the set of its words, a page  *)
(* content or excerpt is "" or a non-empty token.  Scores are in tenths    *)
(* (12 is the score 1.2).                                                  *)
(***************************************************************************)
EXTENDS Integers, Sequences, FiniteSets, TLC

(* ---------------------------- bounds ---------------------------------- *)
MaxDepth == 2          \* path segments of an indexed URL
MaxUrls == 2           \* max_urls_per_domain of the index builds
ParallelLimit == 2     \* largest parallel_fetch_limit of the index builds
MaxLinks == 3          \* entries of a sitemap, links of a page
MaxEnqueues == 4       \* entries put on a frontier
RecPages == 13         \* max_pages of the searches over recommended links
ScoreSpan == 120       \* the largest finite candidate score, in tenths
ChainLen == 5          \* pages of the site of the long crawls
MaxContent == 3        \* characters of a content given to the compressor
NumPaths == 3          \* pages of the documentation host
MaxPages == 2          \* largest max_pages the agent is constructed with
MaxClock == 3          \* seconds the clock can advance
MaxPuts == 3           \* puts made on one PageCache

(* ------------------------- program constants -------------------------- *)
min_match_score == 10      \* 1.0, in tenths
max_url_candidates == 5
SeedPriority == 10
CachedTop == 3
crawl_depth == 3
DefaultMaxContentLength == 50000
MarkerLen == 24            \* len("\n\n[Content truncated...]")
NotFoundLen == 32          \* len("No relevant documentation found.")
AnswerLen == 6             \* the length of the answer of the searches

(* ------------------------------ values -------------------------------- *)
Host == "docs.example.com"
URLS == {<<Host, p>> : p \in 1..NumPaths}
Netloc(u) == u[1]

NoUrl == <<"", 0>>                 \* the empty string as a URL
NonObject == <<"non-object", 0>>   \* a links_to_explore item that is no JSON object
LocalUrl == <<"[local]", 0>>

\* an isoformat timestamp that parses to the time t
IsoTime(t) == <<"iso", t>>

NoPage == [url |-> NoUrl, title |-> {}, summary |-> {}, content |-> "",
           links |-> <<>>, fetched_at |-> <<"", 0>>, domain |-> ""]
NoFetch == [url |-> NoUrl, content |-> "", title |-> {}, links |-> <<>>]
NoResult == [status |-> "none"]
NoDecision == [kind |-> "none", safe_default |-> FALSE, sufficient |-> FALSE, links |-> 0]

QueryWords == {"q"}
PageTitle == {"w"}
LlmSummary == {"q"}
\* scores in tenths: 0.5 is below min_match_score; 1.2 and 1.5 clamp to the
\* same priority 8; 8.0 has priority 2; 12.0 clamps to priority 0
ScoreVals == {5, 12, 15, 80, 120}
FewScores == {5, 15}

ToolId == "docs"
UnknownToolId == "nonexistent"

VARIABLES
  max_content_length, \* setting: the length the answer is cut to
  final,            \* the length of the returned content and how it was cut
  max_pages,        \* DocSearchAgent.max_pages
  sitemap_enabled,  \* DocSearchAgent.sitemap_enabled
  tools,            \* config.tools: tool id -> sequence of web source URLs
  cache,            \* PageCache._cache, in insertion order
  index,            \* SitemapIndex._index: domain -> sequence of scored entries
  pc,               \* position of the search call
  tool_name,        \* argument of search
  visited_urls, to_explore, collected_content, sources,
  pages_explored, has_sufficient, sitemap_candidates,
  current_url, cached_page, fetch_result,
  result,           \* the record search returned
  raised,           \* the exception that left search, "none" if none
  fetchCalls,       \* history: URL -> calls of web_fetcher.fetch_with_links
  visitOrder,       \* history: URLs in the order they were marked visited
  navCalls,         \* history: URLs handed to _analyze_page
  llmCalls,         \* history: calls of llm.generate
  cachePuts,        \* history: URLs handed to cache.put
  indexCalls,       \* history: calls of sitemap_index.ensure_indexed
  indexRaises,      \* history: ensure_indexed calls that raised
  failedFetch,      \* history: URLs whose fetch raised
  navFailed,        \* history: URLs whose navigator call raised or gave no JSON
  lastNav,          \* history: what the navigator's LLM did at the last _analyze_page
  now,              \* datetime.now(), in seconds
  ttl,              \* SitemapIndex.ttl
  domain_index,     \* SitemapIndex._index: domain -> DomainIndex
  callers,          \* position of each ensure_indexed call
  lock_holder,      \* the call inside _indexing_locks[domain], 0 if none
  netBuilds,        \* history: the network builds started, with caller and time
  buildFailures,    \* history: builds that raised before they stored an index
  storedAt,         \* history: the times at which a build stored its index
  overlapped,       \* history: a call was made while another was in flight
  retAge,           \* history: per call, the age of the stored index at its return
  disk,             \* the cache file: what has been written of the document
  saving,           \* position of _save_cache
  loaded,           \* what the last _load_cache of another instance read
  last_put,         \* history: the arguments of the last put
  puts,             \* history: number of puts
  got,              \* the result of the last get, with its URL
  cancel,           \* the caller's cancellation of the search task
  indexRequested,   \* search is awaiting, or has awaited, ensure_indexed
  scorer,           \* an index entry, two queries and the scores of the entry
  build,            \* one index build: its settings, its crawl and what it stored
  frontier,         \* a to_explore list under enqueues and pops, with a heap
  recs,             \* a loop over pages that recommend links nobody else names
  priming,          \* one URL put on the frontier before the loop
  discovery,        \* one index build: the site's answers and what was stored
  duo,              \* two searches under way on one engine, and their cache
  compressor,       \* one compress call: the settings, the content, the result
  index_file        \* the file of the SitemapIndex, and the last operation on a store

\* the variables of the search call
searchVars == <<max_pages, sitemap_enabled, max_content_length, tools, final,
          cache, index, pc, tool_name,
          visited_urls, to_explore, collected_content, sources,
          pages_explored, has_sufficient, sitemap_candidates,
          current_url, cached_page, fetch_result, result, raised,
          fetchCalls, visitOrder, navCalls, llmCalls, cachePuts, indexCalls,
          indexRaises, failedFetch, navFailed, lastNav>>

\* the variables of the ensure_indexed calls
indexVars == <<ttl, domain_index, callers, lock_holder, netBuilds, buildFailures,
               storedAt, overlapped, retAge>>

\* the variables of the page cache and its file
cacheVars == <<disk, saving, loaded, last_put, puts, got>>

\* the cancellation of the search task
cancelVars == <<cancel, indexRequested>>

\* the index entries under construction and under scoring
\* the structures exercised by themselves
unitVars == <<frontier, recs, priming, discovery, duo, compressor, index_file>>

offlineVars == <<scorer, build, unitVars>>

componentVars == <<now, indexVars, cacheVars, cancelVars, offlineVars>>

vars == <<searchVars, componentVars>>

(* --------------------------- sequences -------------------------------- *)
Range(s) == {s[i] : i \in DOMAIN s}
Take(s, n) == SubSeq(s, 1, IF n < Len(s) THEN n ELSE Len(s))
Max(a, b) == IF a >= b THEN a ELSE b
Min(a, b) == IF a <= b THEN a ELSE b

RECURSIVE InsertBeforeTies(_, _, _)
\* an insertion that puts the new pair before the pairs of equal key
InsertBeforeTies(sorted, x, sign) ==
  IF sorted = <<>> THEN <<x>>
  ELSE IF sign * sorted[Len(sorted)][2] < sign * x[2]
       THEN Append(sorted, x)
       ELSE Append(InsertBeforeTies(SubSeq(sorted, 1, Len(sorted) - 1), x, sign),
                   sorted[Len(sorted)])

\* list.sort(key=lambda x: x[1]) of pairs: stable, ascending in sign * x[2]
RECURSIVE InsertStable(_, _, _)
InsertStable(sorted, x, sign) ==
  IF sorted = <<>> THEN <<x>>
  ELSE IF sign * sorted[Len(sorted)][2] <= sign * x[2]
       THEN Append(sorted, x)
       ELSE Append(InsertStable(SubSeq(sorted, 1, Len(sorted) - 1), x, sign),
                   sorted[Len(sorted)])

RECURSIVE SortStable(_, _)
SortStable(s, sign) ==
  IF s = <<>> THEN <<>>
  ELSE InsertStable(SortStable(SubSeq(s, 1, Len(s) - 1), sign), s[Len(s)], sign)

(* ---------------------------- PageCache -------------------------------- *)
\* the CachedPage put builds, stamped with the current time
CachedPage(u, summary, content, domain) ==
  [url |-> u, title |-> PageTitle, summary |-> summary, content |-> content,
   links |-> <<>>, fetched_at |-> IsoTime(now), domain |-> domain]

\* _make_key: the first 16 hex digits of the SHA-256 of the URL, taken to
\* differ for the URLs of the model
MakeKey(u) == <<"sha256", u>>

\* PageCache.get: the entry stored under the key of the URL, None if absent
CacheGet(c, u) ==
  IF \E i \in DOMAIN c : MakeKey(c[i].url) = MakeKey(u)
  THEN c[CHOOSE i \in DOMAIN c : MakeKey(c[i].url) = MakeKey(u)]
  ELSE NoPage

\* a put that always inserts
CachePutAppend(c, page) == Append(c, page)

\* PageCache.put without the save: overwrite in place, or insert at the end
CachePut(c, page) ==
  IF \E i \in DOMAIN c : MakeKey(c[i].url) = MakeKey(page.url)
  THEN [i \in DOMAIN c |-> IF MakeKey(c[i].url) = MakeKey(page.url) THEN page ELSE c[i]]
  ELSE Append(c, page)

SimilarScore(page) ==
  Cardinality(QueryWords \cap page.title) * 2 + Cardinality(QueryWords \cap page.summary)

\* PageCache.find_similar(query, domain): pages of the domain that score > 0,
\* by descending score, cache order among equals
RECURSIVE ScoredPages(_, _)
ScoredPages(c, domain) ==
  IF c = <<>> THEN <<>>
  ELSE LET page == c[Len(c)]
           rest == ScoredPages(SubSeq(c, 1, Len(c) - 1), domain)
       IN IF (domain # "" /\ page.domain # domain) \/ SimilarScore(page) <= 0
          THEN rest
          ELSE Append(rest, <<page, SimilarScore(page)>>)

FindSimilar(c, domain) ==
  LET sorted == SortStable(ScoredPages(c, domain), -1)
  IN [i \in DOMAIN sorted |-> sorted[i][1]]

(* --------------------------- SitemapIndex ----------------------------- *)
\* the indexes of at most n entries a build can store, in sitemap order; an
\* entry carries the score find_relevant_urls computes for the query
IndexContents(n, scores) ==
  {s \in UNION {[1..k -> [url : URLS, score : scores]] : k \in 0..n} :
     \A i, j \in DOMAIN s : i < j => s[i].url[2] < s[j].url[2]}

\* SitemapIndex.find_relevant_urls: matches with score > 0, best first
FindRelevantUrls(idx, domain, max_results) ==
  IF domain \notin DOMAIN idx THEN <<>>
  ELSE LET urls == idx[domain]
           matches == SelectSeq([i \in DOMAIN urls |-> <<urls[i].url, urls[i].score>>],
                                LAMBDA m : m[2] > 0)
       IN Take(SortStable(matches, -1), max_results)

EnsureOutcomes == {"ok", "raise", "raise_on_save"}

\* SitemapIndex.ensure_indexed for the outcome oc: a fresh index is returned
\* as it is; a build stores its result and then saves it
EnsureIndexed(idx, domain, oc, built) ==
  IF domain \in DOMAIN idx THEN [index |-> idx, raised |-> FALSE]
  ELSE IF oc = "raise" THEN [index |-> idx, raised |-> TRUE]
  ELSE [index |-> (domain :> built) @@ idx, raised |-> (oc = "raise_on_save")]

(* ------------------------- DocSearchAgent ----------------------------- *)
\* _get_starting_points: the web sources' URLs and their distinct hosts
RECURSIVE Domains(_)
Domains(srcs) ==
  IF srcs = <<>> THEN <<>>
  ELSE LET rest == Domains(SubSeq(srcs, 1, Len(srcs) - 1))
           d == Netloc(srcs[Len(srcs)])
       IN IF d # "" /\ d \notin Range(rest) THEN Append(rest, d) ELSE rest

\* priority of a sitemap candidate: max(0, min(9, int(10 - score)))
TruncDiv10(v) == IF v >= 0 THEN v \div 10 ELSE -((-v) \div 10)
\* a priority that grows with the score
CandidatePriorityByScore(score) == Max(0, Min(9, TruncDiv10(score)))
CandidatePriority(score) == Max(0, Min(9, TruncDiv10(100 - score)))

\* a scan that queries the index even after ensure_indexed raised
SourceMatchesNoSkip(ens, domain) ==
  SelectSeq(FindRelevantUrls(ens.index, domain, max_url_candidates),
            LAMBDA m : m[2] >= min_match_score)

\* the matches one source adds: none when ensure_indexed raised (continue),
\* else those of find_relevant_urls that reach min_match_score
SourceMatches(ens, domain) ==
  IF ens.raised THEN <<>>
  ELSE SelectSeq(FindRelevantUrls(ens.index, domain, max_url_candidates),
                 LAMBDA m : m[2] >= min_match_score)

\* _get_sitemap_candidates over the sources 1..n, with the outcome of each
\* ensure_indexed call
RECURSIVE CandidateScan(_, _, _, _, _)
CandidateScan(srcs, n, ocs, built, idx0) ==
  IF n = 0 THEN [index |-> idx0, candidates |-> <<>>, calls |-> 0, raises |-> 0]
  ELSE LET before == CandidateScan(srcs, n - 1, ocs, built, idx0)
           domain == Netloc(srcs[n])
           ens == EnsureIndexed(before.index, domain, ocs[n], built)
       IN [index |-> ens.index,
           candidates |-> before.candidates \o SourceMatches(ens, domain),
           calls |-> before.calls + 1,
           raises |-> before.raises + (IF ens.raised THEN 1 ELSE 0)]

GetSitemapCandidates(srcs, ocs, built, idx0) ==
  IF ~sitemap_enabled
  THEN [index |-> idx0, candidates |-> <<>>, calls |-> 0, raises |-> 0]
  ELSE LET scan == CandidateScan(srcs, Len(srcs), ocs, built, idx0)
       IN [index |-> scan.index,
           candidates |-> Take(SortStable(scan.candidates, -1), max_url_candidates),
           calls |-> scan.calls, raises |-> scan.raises]

\* the cache prefetch: the top cached matches of each domain
RECURSIVE PrefetchPages(_, _, _)
PrefetchPages(pages, n, st) ==
  IF n = 0 THEN st
  ELSE LET before == PrefetchPages(pages, n - 1, st)
           page == pages[n]
       IN IF page.url \in before.visited THEN before
          ELSE [visited |-> before.visited \cup {page.url},
                collected |-> Append(before.collected,
                                     [url |-> page.url, content |-> page.content]),
                sources |-> Append(before.sources, <<"[cached] ", page.url>>)]

RECURSIVE Prefetch(_, _, _)
Prefetch(c, domains, n) ==
  IF n = 0 THEN [visited |-> {}, collected |-> <<>>, sources |-> <<>>]
  ELSE LET top == Take(FindSimilar(c, domains[n]), CachedTop)
       IN PrefetchPages(top, Len(top), Prefetch(c, domains, n - 1))

\* the sitemap candidates that are not visited, queued with their priority
RECURSIVE QueueCandidates(_, _, _)
QueueCandidates(cands, n, visited) ==
  IF n = 0 THEN [queue |-> <<>>, sources |-> <<>>]
  ELSE LET before == QueueCandidates(cands, n - 1, visited)
           url == cands[n][1]
       IN IF url \in visited THEN before
          ELSE [queue |-> Append(before.queue, <<url, CandidatePriority(cands[n][2])>>),
                sources |-> Append(before.sources, <<"[sitemap-match] ", url>>)]

\* seeds queued whether visited or not
QueueSeedsAll(start_urls, visited) ==
  [i \in DOMAIN start_urls |-> <<start_urls[i], SeedPriority>>]

\* the start URLs that are not visited, queued behind the candidates
QueueSeeds(start_urls, visited) ==
  LET fresh == SelectSeq(start_urls, LAMBDA u : u \notin visited)
  IN [i \in DOMAIN fresh |-> <<fresh[i], SeedPriority>>]

(* ContentCompressor.compress: the identity result unless a client is      *)
(* available, the content is long enough and the service call succeeds     *)
CompressOutcomes == {"unavailable", "short", "compressed", "error"}
\* a compressor that lets the failure of the service call through
CompressLeaky(content, oc) ==
  IF oc \in {"unavailable", "short"}
  THEN [raised |-> FALSE, compressed_text |-> content, was_compressed |-> FALSE]
  ELSE IF oc = "compressed"
  THEN [raised |-> FALSE, compressed_text |-> "compressed", was_compressed |-> TRUE]
  ELSE [raised |-> TRUE, compressed_text |-> content, was_compressed |-> FALSE]
Compress(content, oc) ==
  IF oc \in {"unavailable", "short"}
  THEN [raised |-> FALSE, compressed_text |-> content, was_compressed |-> FALSE]
  ELSE IF oc = "compressed"
  THEN [raised |-> FALSE, compressed_text |-> "compressed", was_compressed |-> TRUE]
  ELSE [raised |-> FALSE, compressed_text |-> content, was_compressed |-> FALSE]

(* what the navigator's LLM call can do: raise, answer text that is no     *)
(* JSON, answer JSON that is no object, or answer an object                *)
LinkItems == URLS \cup {NoUrl, NonObject}
LinkLists == UNION {[1..n -> LinkItems] : n \in 0..1}
NavOutcomes ==
  {[kind |-> "llm_error"], [kind |-> "bad_json"], [kind |-> "not_object"]}
  \cup [kind : {"object"}, has_sufficient_info : BOOLEAN,
        relevant_content : {"", "excerpt"}, summary : {LlmSummary},
        links_to_explore : LinkLists]
  \cup [kind : {"object_null_links"}, has_sufficient_info : BOOLEAN,
        relevant_content : {"", "excerpt"}, summary : {LlmSummary},
        links_to_explore : {<<>>}]

\* a default that keeps the whole page as the excerpt
SafeDefaultWholePage(fr) ==
  [kind |-> "object", has_sufficient_info |-> FALSE, relevant_content |-> fr.content,
   summary |-> fr.title, links_to_explore |-> <<>>]

\* the decision _analyze_page returns from its except branch
SafeDefault(fr) ==
  [kind |-> "object", has_sufficient_info |-> FALSE, relevant_content |-> "",
   summary |-> fr.title, links_to_explore |-> <<>>]

\* _analyze_page: the parsed answer, or the safe default on any exception of
\* the LLM call or the parse; an exception of the compressor would leave it
AnalyzePage(fr, nav) ==
  IF \E comp \in CompressOutcomes : Compress(fr.content, comp).raised
  THEN [kind |-> "raised"]
  ELSE IF nav.kind \in {"llm_error", "bad_json"} THEN SafeDefault(fr)
  ELSE nav

\* the for loop over links_to_explore: the entries appended to the queue
RECURSIVE RecommendedLinks(_, _, _, _)
RecommendedLinks(links, n, visited, explored) ==
  IF n = 0 THEN <<>>
  ELSE LET before == RecommendedLinks(links, n - 1, visited, explored)
           link_url == links[n]
       IN IF link_url # NoUrl /\ link_url \notin visited
          THEN Append(before, <<link_url, explored * 10 + (n - 1)>>)
          ELSE before

\* the exception of the for loop: enumerate(None), or .get of a non-object
LinksRaise(decision) ==
  IF decision.kind = "object_null_links" THEN "TypeError"
  ELSE IF \E i \in DOMAIN decision.links_to_explore :
            decision.links_to_explore[i] = NonObject
       THEN "AttributeError"
       ELSE "none"

(* ------------------------------ Init ---------------------------------- *)
\* the web sources of the tool, none to two: source i is page i of the host
SeedLists ==
  {s \in UNION {[1..n -> URLS] : n \in 0..2} :
     \A i \in DOMAIN s : s[i][2] = i}

\* the cache files the agent can load: empty, or one page, whose summary
\* shares a word with the query or not
InitialCaches ==
  {<<>>} \cup {<<CachedPage(u, sm, "text", Netloc(u))>> :
                u \in URLS, sm \in {PageTitle, LlmSummary}}

\* the calls of ensure_indexed that share one SitemapIndex
Callers == 1..2
NoAge == <<"none", 0>>

\* no ensure_indexed call is under way, on an empty index with the default ttl
IndexAtRest ==
  /\ ttl = 86400
  /\ domain_index = <<>>
  /\ callers = [c \in Callers |-> "idle"]
  /\ lock_holder = 0
  /\ netBuilds = <<>>
  /\ buildFailures = 0
  /\ storedAt = <<>>
  /\ overlapped = FALSE
  /\ retAge = [c \in Callers |-> NoAge]

\* the cache file before any save, no file
NoFile == [exists |-> FALSE, head |-> FALSE, body |-> <<>>, tail |-> FALSE]
NoLoad == [partial |-> FALSE, doc |-> <<>>, failed |-> "none", raised |-> "none"]
NoPut == [url |-> NoUrl, title |-> {}, summary |-> {}, content |-> "",
          links |-> <<>>, domain |-> ""]
NoGet == [url |-> NoUrl, page |-> NoPage]

\* no put or get has been made, and there is no cache file
CacheAtRest ==
  /\ disk = NoFile
  /\ saving = "idle"
  /\ loaded = NoLoad
  /\ last_put = NoPut
  /\ puts = 0
  /\ got = NoGet

\* the search task has not been cancelled
NoCancel == [state |-> "none", calls |-> 0]
CancelAtRest ==
  /\ cancel = NoCancel
  /\ indexRequested = FALSE

\* no entry is being scored
NoScore == [entry |-> <<>>, q |-> {}, q2 |-> {}, scored |-> FALSE, s |-> 0, s2 |-> 0]
\* no index build has started
NoBuild == [phase |-> "none", max_urls_per_domain |-> 0, parallel_fetch_limit |-> 0,
            urls |-> <<>>, visited |-> {}, to_visit |-> <<>>, batch |-> <<>>,
            batches |-> 0, stored |-> <<>>, fetched |-> <<>>, failed |-> {}]
\* a frontier nothing was put on
NoFrontier == [list |-> <<>>, heap |-> {}, seq |-> 0, out |-> <<>>, heap_out |-> <<>>]
\* the loop over recommended links has not started
NoRecs == [to_explore |-> <<>>, visited_urls |-> {}, pages_explored |-> 0,
           order |-> <<>>]
\* nothing has been put on the frontier
NoPriming == [kind |-> "none"]
\* no pair of searches is under way
NoDuo == [cache |-> <<>>, s |-> <<>>, writes |-> <<>>]
\* no site is being indexed
NoDiscovery == [phase |-> "none"]
\* no compress call is made
NoCompressor == [phase |-> "none"]
\* no index file, and no operation on the cache or the index yet
NoIndexFile == [file |-> [exists |-> FALSE, complete |-> FALSE, doc |-> <<>>],
                loaded |-> <<>>, last |-> [on |-> "", op |-> "", completed |-> FALSE]]
UnitsAtRest ==
  /\ frontier = NoFrontier
  /\ recs = NoRecs
  /\ priming = NoPriming
  /\ discovery = NoDiscovery
  /\ duo = NoDuo
  /\ compressor = NoCompressor
  /\ index_file = NoIndexFile

OfflineAtRest ==
  /\ scorer = NoScore
  /\ build = NoBuild
  /\ UnitsAtRest

\* the components outside the search call, as constructed
ComponentsAtRest ==
  /\ now = 0
  /\ IndexAtRest
  /\ CacheAtRest
  /\ CancelAtRest
  /\ OfflineAtRest

\* no content has been returned
NoFinal == [synthesized |-> 0, kept |-> 0, marker |-> FALSE, length |-> 0]

\* no search call has started
SearchNotStarted ==
  /\ index = <<>>
  /\ pc = "idle"
  /\ tool_name = ""
  /\ visited_urls = {}
  /\ to_explore = <<>>
  /\ collected_content = <<>>
  /\ sources = <<>>
  /\ pages_explored = 0
  /\ has_sufficient = FALSE
  /\ sitemap_candidates = <<>>
  /\ current_url = NoUrl
  /\ cached_page = NoPage
  /\ fetch_result = NoFetch
  /\ result = NoResult
  /\ final = NoFinal
  /\ raised = "none"
  /\ fetchCalls = [u \in URLS |-> 0]
  /\ visitOrder = <<>>
  /\ navCalls = <<>>
  /\ llmCalls = 0
  /\ cachePuts = <<>>
  /\ indexCalls = 0
  /\ indexRaises = 0
  /\ failedFetch = {}
  /\ navFailed = {}
  /\ lastNav = NoDecision

\* the agent as constructed: its settings, and the cache file it loaded
Constructed(budgets, caches) ==
  /\ ComponentsAtRest
  /\ max_pages \in budgets
  /\ max_content_length = DefaultMaxContentLength
  /\ sitemap_enabled \in BOOLEAN
  /\ tools \in {(ToolId :> s) : s \in SeedLists}
  /\ cache \in caches
  /\ SearchNotStarted

\* an agent with no web source, on which no search is made
AgentAtRest ==
  /\ max_pages = MaxPages
  /\ max_content_length = DefaultMaxContentLength
  /\ sitemap_enabled = TRUE
  /\ tools = (ToolId :> <<>>)
  /\ cache = <<>>
  /\ SearchNotStarted

Init == Constructed(1..MaxPages, InitialCaches)

(* ----------------------------- actions -------------------------------- *)
histVars == <<fetchCalls, visitOrder, navCalls, llmCalls, cachePuts>>
loopVars == <<visited_urls, to_explore, collected_content, sources,
              pages_explored, has_sufficient, current_url, cached_page,
              fetch_result>>
engineVars == <<max_pages, sitemap_enabled, max_content_length, tools>>

\* a lookup that falls back to the configured tool
GetToolFallback(tn) ==
  [found |-> TRUE, sources |-> IF tn \in DOMAIN tools THEN tools[tn] ELSE tools[ToolId]]

\* config.tools.get(tool_name): the tool's sources, or nothing
GetTool(tn) ==
  IF tn \in DOMAIN tools THEN [found |-> TRUE, sources |-> tools[tn]]
  ELSE [found |-> FALSE, sources |-> <<>>]

\* search, unknown tool: the error record
SearchNotFound(tn) ==
  /\ pc = "idle"
  /\ ~GetTool(tn).found
  /\ tool_name' = tn
  /\ result' = [error |-> <<"Tool '", tn, "' not found">>,
                available_tools |-> DOMAIN tools,
                content |-> "None", sources |-> <<>>]
  /\ pc' = "done"
  /\ UNCHANGED <<componentVars, engineVars, cache, index, loopVars, sitemap_candidates, raised,
                 final, histVars, failedFetch, navFailed, indexCalls, indexRaises, lastNav>>

\* search, known tool: _deep_search up to the exploration loop
SearchPrime(tn, contents) ==
  /\ pc = "idle"
  /\ GetTool(tn).found
  /\ tool_name' = tn
  /\ \E ocs \in [1..Len(GetTool(tn).sources) -> EnsureOutcomes], built \in contents :
       LET start_urls == GetTool(tn).sources
           domains == Domains(start_urls)
           pre == Prefetch(cache, domains, Len(domains))
           sm == GetSitemapCandidates(start_urls, ocs, built, index)
           q == QueueCandidates(sm.candidates, Len(sm.candidates), pre.visited)
       IN /\ visited_urls' = pre.visited
          /\ collected_content' = pre.collected
          /\ sitemap_candidates' = sm.candidates
          /\ index' = sm.index
          /\ indexCalls' = indexCalls + sm.calls
          /\ indexRaises' = indexRaises + sm.raises
          /\ sources' = pre.sources \o q.sources
          /\ to_explore' = q.queue \o QueueSeeds(start_urls, pre.visited)
  /\ pages_explored' = 0
  /\ has_sufficient' = FALSE
  /\ pc' = "loop"
  /\ UNCHANGED <<componentVars, engineVars, cache, current_url, cached_page, fetch_result,
                 result, final, raised, histVars, failedFetch, navFailed, lastNav>>

\* a budget test that is off by one
BudgetLeftOffByOne(explored, limit) == explored <= limit

\* the while condition
BudgetLeft(explored, limit) == explored < limit
LoopCondition ==
  to_explore # <<>> /\ BudgetLeft(pages_explored, max_pages) /\ ~has_sufficient

\* a pop that never skips
NextUrlNeverVisited(url, visited) == FALSE

\* the visited test on the popped URL
NextUrlIsVisited(url, visited) == url \in visited

\* a pop that leaves the queue as it is
PoppedKept(sorted) == sorted

\* to_explore.pop(0): the queue without its first item
Popped(sorted) == Tail(sorted)

\* the loop head: sort, pop, skip a visited URL; else mark it, count it and
\* look it up in the cache, and start the fetch on a miss
LoopHead ==
  /\ pc = "loop"
  /\ LoopCondition
  /\ LET sorted == SortStable(to_explore, 1)
         url == sorted[1][1]
         hit == CacheGet(cache, url)
     IN /\ to_explore' = Popped(sorted)
        /\ IF NextUrlIsVisited(url, visited_urls)
           THEN UNCHANGED <<visited_urls, pages_explored, current_url, cached_page,
                            fetch_result, pc, histVars>>
           ELSE /\ visited_urls' = visited_urls \cup {url}
                /\ pages_explored' = pages_explored + 1
                /\ current_url' = url
                /\ visitOrder' = Append(visitOrder, url)
                /\ cached_page' = hit
                /\ IF hit # NoPage
                   THEN /\ fetch_result' = [url |-> hit.url, content |-> hit.content,
                                            title |-> hit.title, links |-> hit.links]
                        /\ navCalls' = Append(navCalls, url)
                        /\ llmCalls' = llmCalls + 1
                        /\ pc' = "navigating"
                        /\ UNCHANGED fetchCalls
                   ELSE /\ fetchCalls' = [fetchCalls EXCEPT ![url] = @ + 1]
                        /\ pc' = "fetching"
                        /\ UNCHANGED <<fetch_result, navCalls, llmCalls>>
                /\ UNCHANGED cachePuts
  /\ UNCHANGED <<componentVars, engineVars, cache, index, tool_name, collected_content, sources,
                 has_sufficient, sitemap_candidates, result, final, raised,
                 failedFetch, navFailed, indexCalls, indexRaises, lastNav>>

\* a fetch failure that gives the page budget its tick back
FetchFailedRefund ==
  /\ pc = "fetching"
  /\ pc' = "loop"
  /\ failedFetch' = failedFetch \cup {current_url}
  /\ pages_explored' = pages_explored - 1
  /\ UNCHANGED <<componentVars, engineVars, cache, index, tool_name, visited_urls, to_explore,
                 collected_content, sources, has_sufficient, current_url, cached_page,
                 fetch_result, sitemap_candidates, result, final, raised, fetchCalls,
                 visitOrder, navCalls, llmCalls, cachePuts, navFailed, indexCalls,
                 indexRaises, lastNav>>

\* web_fetcher.fetch_with_links raised: the URL is skipped
FetchFailed ==
  /\ pc = "fetching"
  /\ pc' = "loop"
  /\ failedFetch' = failedFetch \cup {current_url}
  /\ UNCHANGED <<componentVars, engineVars, cache, index, tool_name, loopVars, sitemap_candidates,
                 result, final, raised, fetchCalls, visitOrder, navCalls, llmCalls, cachePuts,
                 navFailed, indexCalls, indexRaises, lastNav>>

\* web_fetcher.fetch_with_links returned: the page goes to the navigator
FetchReturned(texts) ==
  /\ pc = "fetching"
  /\ \E content \in texts :
       fetch_result' = [url |-> current_url, content |-> content,
                        title |-> PageTitle, links |-> <<>>]
  /\ navCalls' = Append(navCalls, current_url)
  /\ llmCalls' = llmCalls + 1
  /\ pc' = "navigating"
  /\ UNCHANGED <<componentVars, engineVars, cache, index, tool_name, visited_urls, to_explore,
                 collected_content, sources, pages_explored, has_sufficient,
                 current_url, cached_page, sitemap_candidates, result, final, raised,
                 fetchCalls, visitOrder, cachePuts, failedFetch, navFailed,
                 indexCalls, indexRaises, lastNav>>

\* the page is stored iff it did not come from the cache and has content
ShouldCache(hit, fr) == hit = NoPage /\ fr.content # ""

\* PageCache._save_cache can fail, when a put calls it
SaveOutcomes(hit, fr) == IF ShouldCache(hit, fr) THEN {"ok", "OSError"} ELSE {"ok"}

\* a loop that ignores the sufficiency flag
BreaksLoopNever(decision) == FALSE

\* a decision that reports sufficiency breaks out of the loop
BreaksLoop(decision) == decision.has_sufficient_info

\* the rest of the iteration after _analyze_page returned nav_result: the
\* cache write, the excerpt, the sufficiency check and the recommended links,
\* up to the first exception
Iteration(nav_result, save) ==
  LET put == ShouldCache(cached_page, fetch_result)
      domains == Domains(GetTool(tool_name).sources)
      domain == IF domains # <<>> THEN domains[1] ELSE Netloc(current_url)
      page == CachedPage(fetch_result.url, nav_result.summary,
                         fetch_result.content, domain)
      relevant == nav_result.relevant_content # ""
      base == [cache |-> cache, cachePuts |-> cachePuts,
               collected |-> collected_content, sources |-> sources,
               has_sufficient |-> has_sufficient, to_explore |-> to_explore,
               raised |-> "none"]
  IN IF nav_result.kind = "raised"
     THEN [base EXCEPT !.raised = "CompressorError"]
     ELSE IF nav_result.kind = "not_object"
     THEN [base EXCEPT !.raised = "AttributeError"]
     ELSE IF put /\ save = "OSError"
     THEN [base EXCEPT !.cache = CachePut(cache, page),
                       !.cachePuts = Append(cachePuts, fetch_result.url),
                       !.raised = "OSError"]
     ELSE LET stored == IF put
                        THEN [base EXCEPT !.cache = CachePut(cache, page),
                                          !.cachePuts = Append(cachePuts, fetch_result.url)]
                        ELSE base
              taken == IF relevant
                       THEN [stored EXCEPT
                               !.collected = Append(collected_content,
                                                    [url |-> current_url,
                                                     content |-> nav_result.relevant_content]),
                               !.sources = Append(sources, <<"", current_url>>)]
                       ELSE stored
          IN IF BreaksLoop(nav_result)
             THEN [taken EXCEPT !.has_sufficient = TRUE]
             ELSE IF LinksRaise(nav_result) # "none"
             THEN [taken EXCEPT !.raised = LinksRaise(nav_result)]
             ELSE [taken EXCEPT !.to_explore =
                     to_explore \o RecommendedLinks(nav_result.links_to_explore,
                                                    Len(nav_result.links_to_explore),
                                                    visited_urls, pages_explored)]

\* history of the last _analyze_page: what the LLM did, whether the decision
\* used is the safe default, and the links of a decision that reported
\* sufficiency
NavRecord(nav, nav_result) ==
  [kind |-> nav.kind,
   safe_default |-> nav_result.kind = "object" /\ nav_result = SafeDefault(fetch_result),
   sufficient |-> nav_result.kind \in {"object", "object_null_links"}
                  /\ nav_result.has_sufficient_info,
   links |-> IF nav_result.kind = "object" /\ nav_result.has_sufficient_info
             THEN Len(nav_result.links_to_explore) ELSE 0]

\* _analyze_page returned: the rest of the iteration runs
NavigatorReturned(navs) ==
  /\ pc = "navigating"
  /\ \E nav \in navs, save \in SaveOutcomes(cached_page, fetch_result) :
       LET nav_result == AnalyzePage(fetch_result, nav)
           it == Iteration(nav_result, save)
       IN /\ lastNav' = NavRecord(nav, nav_result)
          /\ navFailed' = IF nav.kind \in {"llm_error", "bad_json"}
                          THEN navFailed \cup {current_url} ELSE navFailed
          /\ cache' = it.cache
          /\ cachePuts' = it.cachePuts
          /\ raised' = it.raised
          /\ IF it.raised # "none"
             THEN /\ pc' = "raised"
                  /\ UNCHANGED <<collected_content, sources, has_sufficient, to_explore>>
             ELSE /\ pc' = "loop"
                  /\ collected_content' = it.collected
                  /\ sources' = it.sources
                  /\ has_sufficient' = it.has_sufficient
                  /\ to_explore' = it.to_explore
  /\ UNCHANGED <<componentVars, engineVars, index, tool_name, visited_urls, pages_explored,
                 current_url, cached_page, fetch_result, sitemap_candidates, result, final,
                 fetchCalls, visitOrder, navCalls, llmCalls, failedFetch,
                 indexCalls, indexRaises>>

\* the record _deep_search returns, with the tool added by search
SearchResult(content, srcs) ==
  [content |-> content, sources |-> srcs, pages_explored |-> pages_explored,
   sitemap_used |-> Len(sitemap_candidates) > 0,
   sitemap_candidates |-> Len(sitemap_candidates),
   tool |-> tool_name]

\* len(text[:limit]) for a text of n characters: a negative limit counts from
\* the end
SliceLen(n, limit) == IF limit >= 0 THEN Min(n, limit) ELSE Max(0, n + limit)

\* the truncation of an answer of n characters
Truncate(n, max_len) ==
  IF n > max_len
  THEN [synthesized |-> n, kept |-> SliceLen(n, max_len), marker |-> TRUE,
        length |-> SliceLen(n, max_len) + MarkerLen]
  ELSE [synthesized |-> n, kept |-> n, marker |-> FALSE, length |-> n]

\* after the loop: the local sources, the synthesis of an answer of one of
\* the lengths, its truncation and the result
ExitLoopWith(lengths) ==
  /\ pc = "loop"
  /\ ~LoopCondition
  /\ \E local_content \in {"", "local text"}, synth \in {"ok", "LLMError"},
        n \in lengths :
       LET all == IF local_content # ""
                  THEN Append(collected_content,
                              [url |-> LocalUrl, content |-> local_content])
                  ELSE collected_content
           srcs == IF local_content # ""
                   THEN Append(sources, <<"[local sources]", NoUrl>>)
                   ELSE sources
       IN /\ collected_content' = all
          /\ sources' = srcs
          /\ IF all = <<>>
             THEN /\ result' = SearchResult("No relevant documentation found.", srcs)
                  /\ final' = [synthesized |-> 0, kept |-> 0, marker |-> FALSE,
                                length |-> NotFoundLen]
                  /\ pc' = "done"
                  /\ UNCHANGED <<llmCalls, raised>>
             ELSE /\ llmCalls' = llmCalls + 1
                  /\ IF synth = "LLMError"
                     THEN /\ raised' = "LLMError"
                          /\ pc' = "raised"
                          /\ UNCHANGED <<result, final>>
                     ELSE /\ result' = SearchResult("answer", srcs)
                          /\ final' = Truncate(n, max_content_length)
                          /\ pc' = "done"
                          /\ UNCHANGED raised
  /\ UNCHANGED <<componentVars, engineVars, cache, index, tool_name, visited_urls, to_explore,
                 pages_explored, has_sufficient, current_url, cached_page,
                 fetch_result, sitemap_candidates, fetchCalls, visitOrder, navCalls,
                 cachePuts, failedFetch, navFailed, indexCalls, indexRaises, lastNav>>

\* the part after the loop, for the answer of the searches
ExitLoop == ExitLoopWith({AnswerLen})

Next ==
  \/ \E tn \in {ToolId, UnknownToolId} : SearchNotFound(tn)
  \/ \E tn \in {ToolId, UnknownToolId} : SearchPrime(tn, IndexContents(1, FewScores))
  \/ LoopHead
  \/ FetchFailed
  \/ FetchReturned({"text"})
  \/ NavigatorReturned(NavOutcomes)
  \/ ExitLoop

Spec == Init /\ [][Next]_vars

\* the searches under the largest page budget and an empty cache, whose
\* requests all return or fail, and whose task is scheduled whenever it can
\* take a step
InitLive == Constructed({MaxPages}, {<<>>})
SpecLive == InitLive /\ [][Next]_vars /\ WF_vars(Next)

(* searches over a cache file that holds a page no source, index or link   *)
(* names and any of the other pages, all of them sharing a word with the   *)
(* query                                                                   *)
ExtraUrl == <<Host, NumPaths + 1>>
SimilarPages(S) ==
  LET held == SelectSeq([i \in 1..NumPaths |-> <<Host, i>>], LAMBDA u : u \in S)
  IN [i \in DOMAIN held |-> CachedPage(held[i], LlmSummary, "text", Host)]
PrefetchCaches ==
  {<<CachedPage(ExtraUrl, LlmSummary, "text", Host)>> \o SimilarPages(S) :
     S \in SUBSET URLS}

InitPrefetch == Constructed({MaxPages}, PrefetchCaches)

NextPrefetch ==
  \/ SearchPrime(ToolId, IndexContents(1, FewScores))
  \/ LoopHead
  \/ FetchFailed
  \/ FetchReturned({"text"})
  \/ NavigatorReturned(NavOutcomes)
  \/ ExitLoop

SpecPrefetch == InitPrefetch /\ [][NextPrefetch]_vars

(* searches of a tool with one web source, or with two web sources on two   *)
(* hosts, whose navigator recommends links on either host                  *)
BlogHost == "blog.example.org"
OtherUrl == <<BlogHost, 1>>

\* the web sources: page 1 of the host, alone or followed by the other host's
HostSeeds == {<<<<Host, 1>>>>, <<<<Host, 1>>, OtherUrl>>}

\* the navigator's answers: an object whose links are any URL strings
HostOutcomes ==
  [kind : {"object"}, has_sufficient_info : BOOLEAN,
   relevant_content : {"", "excerpt"}, summary : {LlmSummary},
   links_to_explore : UNION {[1..n -> {<<Host, 2>>, OtherUrl}] : n \in 0..1}]

InitHosts ==
  /\ ComponentsAtRest
  /\ max_pages = MaxPages
  /\ max_content_length = DefaultMaxContentLength
  /\ sitemap_enabled = FALSE
  /\ tools \in {(ToolId :> s) : s \in HostSeeds}
  /\ cache = <<>>
  /\ SearchNotStarted

NextHosts ==
  \/ SearchPrime(ToolId, {<<>>})
  \/ LoopHead
  \/ FetchFailed
  \/ FetchReturned({"text"})
  \/ NavigatorReturned(HostOutcomes)
  \/ ExitLoop

SpecHosts == InitHosts /\ [][NextHosts]_vars

(* a search whose navigator recommends no link and never reports            *)
(* sufficiency, over an index of two scored entries, with a page budget    *)
(* above the largest of the other searches                                 *)
QuietOutcomes ==
  {[kind |-> "llm_error"]}
  \cup [kind : {"object"}, has_sufficient_info : {FALSE},
        relevant_content : {"", "excerpt"}, summary : {LlmSummary},
        links_to_explore : {<<>>}]

InitPriority == Constructed({MaxPages + 1}, InitialCaches)

NextPriority ==
  \/ SearchPrime(ToolId, IndexContents(2, ScoreVals))
  \/ LoopHead
  \/ FetchFailed
  \/ FetchReturned({"text"})
  \/ NavigatorReturned(QuietOutcomes)
  \/ ExitLoop

SpecPriority == InitPriority /\ [][NextPriority]_vars

(* searches under several settings of max_content_length, with answers    *)
(* of several lengths                                                      *)
\* values of the setting: any integer is accepted
ContentLimits == {-1, 0, 5, 40, DefaultMaxContentLength}

\* lengths of the text the synthesizer returns
AnswerLengths == {0, 3, 30, 70}

InitTruncate ==
  /\ ComponentsAtRest
  /\ max_pages = 1
  /\ max_content_length \in ContentLimits
  /\ sitemap_enabled = FALSE
  /\ tools \in {(ToolId :> s) : s \in SeedLists}
  /\ cache = <<>>
  /\ SearchNotStarted

NextTruncate ==
  \/ SearchPrime(ToolId, IndexContents(1, FewScores))
  \/ LoopHead
  \/ FetchFailed
  \/ FetchReturned({"text"})
  \/ NavigatorReturned(QuietOutcomes)
  \/ ExitLoopWith(AnswerLengths)

SpecTruncate == InitTruncate /\ [][NextTruncate]_vars

(* ------------------- SitemapIndex.ensure_indexed ---------------------- *)
\* the DomainIndex ensure_indexed stores at time t
DomainIndex(t, urls, source_type) ==
  [indexed_at |-> IsoTime(t), urls |-> urls, url_count |-> Len(urls),
   source_type |-> source_type]

\* (datetime.now() - indexed_time).total_seconds()
Age(di, domain, t) == t - di[domain].indexed_at[2]

\* a staleness test that never trusts an index without URLs
IsStaleWhenEmpty(di, domain, t, life) ==
  IF domain \notin DOMAIN di THEN TRUE
  ELSE IF di[domain].indexed_at[1] # "iso" THEN TRUE
  ELSE Age(di, domain, t) > life \/ di[domain].url_count = 0

\* a staleness test that lets one second too many pass
IsStaleLenient(di, domain, t, life) ==
  IF domain \notin DOMAIN di THEN TRUE
  ELSE IF di[domain].indexed_at[1] # "iso" THEN TRUE
  ELSE Age(di, domain, t) > life + 1

\* _is_stale: no index, no indexed_at, an indexed_at that does not parse, or
\* an age above the ttl
IsStale(di, domain, t, life) ==
  IF domain \notin DOMAIN di THEN TRUE
  ELSE IF di[domain].indexed_at[1] # "iso" THEN TRUE
  ELSE Age(di, domain, t) > life

\* get_domain_stats
DomainStats(di, domain) ==
  IF domain \notin DOMAIN di THEN [domain |-> ""]
  ELSE [domain |-> domain, indexed_at |-> di[domain].indexed_at,
        source_type |-> di[domain].source_type, url_count |-> di[domain].url_count]

\* age of the index the domain stats report
StatsAge(di, domain, t) == <<"age", t - DomainStats(di, domain).indexed_at[2]>>

\* a lock that lets every call in
LockAlwaysFree(holder) == TRUE

\* _indexing_locks[domain] is not held
LockFree(holder) == holder = 0

InFlight(c) == callers[c] \in {"waiting", "building"}

\* ensure_indexed is called: the call reaches the lock of the domain
EnsureCall(c) ==
  /\ callers[c] = "idle"
  /\ callers' = [callers EXCEPT ![c] = "waiting"]
  /\ overlapped' = (overlapped \/ \E o \in Callers \ {c} : InFlight(o))
  /\ UNCHANGED <<searchVars, cacheVars, cancelVars, offlineVars, now, ttl, domain_index, lock_holder,
                 netBuilds, buildFailures, storedAt, retAge>>

\* the call gets the lock: it returns a fresh index, else starts the build
EnsureEnter(c) ==
  /\ callers[c] = "waiting"
  /\ LockFree(lock_holder)
  /\ IF ~IsStale(domain_index, Host, now, ttl)
     THEN /\ callers' = [callers EXCEPT ![c] = "returned"]
          /\ retAge' = [retAge EXCEPT ![c] = StatsAge(domain_index, Host, now)]
          /\ UNCHANGED <<lock_holder, netBuilds>>
     ELSE /\ callers' = [callers EXCEPT ![c] = "building"]
          /\ lock_holder' = c
          /\ netBuilds' = Append(netBuilds, [caller |-> c, at |-> now])
          /\ UNCHANGED retAge
  /\ UNCHANGED <<searchVars, cacheVars, cancelVars, offlineVars, now, ttl, domain_index, buildFailures,
                 storedAt, overlapped>>

\* the build ends: the index is stored, then saved; the save can raise
BuildStored(c, contents) ==
  /\ callers[c] = "building"
  /\ \E built \in contents, source_type \in {"sitemap", "crawl"},
        save \in {"ok", "OSError"} :
       LET stored == (Host :> DomainIndex(now, built, source_type)) @@ domain_index
       IN /\ domain_index' = stored
          /\ IF save = "ok"
             THEN /\ callers' = [callers EXCEPT ![c] = "returned"]
                  /\ retAge' = [retAge EXCEPT ![c] = StatsAge(stored, Host, now)]
             ELSE /\ callers' = [callers EXCEPT ![c] = "raised"]
                  /\ UNCHANGED retAge
  /\ storedAt' = Append(storedAt, now)
  /\ lock_holder' = 0
  /\ UNCHANGED <<searchVars, cacheVars, cancelVars, offlineVars, now, ttl, netBuilds, buildFailures,
                 overlapped>>

\* the build raises before anything is stored
BuildRaised(c) ==
  /\ callers[c] = "building"
  /\ callers' = [callers EXCEPT ![c] = "raised"]
  /\ buildFailures' = buildFailures + 1
  /\ lock_holder' = 0
  /\ UNCHANGED <<searchVars, cacheVars, cancelVars, offlineVars, now, ttl, domain_index, netBuilds,
                 storedAt, overlapped, retAge>>

\* a second passes
Tick ==
  /\ now < MaxClock
  /\ now' = now + 1
  /\ UNCHANGED <<searchVars, indexVars, cacheVars, cancelVars, offlineVars>>

\* the ttl settings, and the index files the SitemapIndex can load: none, or
\* one entry for the host with a past, present, future, missing or unparsable
\* indexed_at
TtlValues == 0..2
LoadedIndexes ==
  {<<>>} \cup
  {(Host :> [indexed_at |-> ia, urls |-> <<>>, url_count |-> 0,
             source_type |-> "sitemap"]) :
     ia \in {IsoTime(t) : t \in -2..1} \cup {<<"", 0>>, <<"garbage", 0>>}}

InitIndex ==
  /\ AgentAtRest
  /\ CacheAtRest
  /\ CancelAtRest
  /\ OfflineAtRest
  /\ now = 0
  /\ ttl \in TtlValues
  /\ domain_index \in LoadedIndexes
  /\ callers = [c \in Callers |-> "idle"]
  /\ lock_holder = 0
  /\ netBuilds = <<>>
  /\ buildFailures = 0
  /\ storedAt = <<>>
  /\ overlapped = FALSE
  /\ retAge = [c \in Callers |-> NoAge]

NextIndex ==
  \/ \E c \in Callers : EnsureCall(c)
  \/ \E c \in Callers : EnsureEnter(c)
  \/ \E c \in Callers : BuildStored(c, IndexContents(1, {15}))
  \/ \E c \in Callers : BuildRaised(c)
  \/ Tick

SpecIndex == InitIndex /\ [][NextIndex]_vars

(* ---------------------- PageCache and its file ------------------------ *)
\* the cache without the fetched_at stamps
Unstamped(c) == [i \in DOMAIN c |-> [c[i] EXCEPT !.fetched_at = <<"", 0>>]]

\* the arguments of a put, as a page without stamp
PutArgs(u, summary, content, domain) ==
  [url |-> u, title |-> PageTitle, summary |-> summary, content |-> content,
   links |-> <<>>, domain |-> domain]

\* the fields of a page that put received as arguments
ArgsOf(page) ==
  [url |-> page.url, title |-> page.title, summary |-> page.summary,
   content |-> page.content, links |-> page.links, domain |-> page.domain]

\* open(cache_path, "w"): the file exists and is empty
Truncated == [exists |-> TRUE, head |-> FALSE, body |-> <<>>, tail |-> FALSE]

\* json.load of the file: the document when the text is complete, else a
\* JSONDecodeError
ParseFile(f) ==
  IF f.head /\ f.tail THEN [ok |-> TRUE, doc |-> f.body]
  ELSE [ok |-> FALSE, doc |-> <<>>]

\* put: the entry is set in memory, then _save_cache opens the file for
\* writing, which empties it
Put(u, summary, content) ==
  /\ saving = "idle"
  /\ puts < MaxPuts
  /\ cache' = CachePut(cache, CachedPage(u, summary, content, Netloc(u)))
  /\ last_put' = PutArgs(u, summary, content, Netloc(u))
  /\ puts' = puts + 1
  /\ disk' = Truncated
  /\ saving' = "writing"
  /\ UNCHANGED <<loaded, got>>

\* json.dump writes the next piece of the document; the last one ends the save
WriteChunk ==
  /\ saving = "writing"
  /\ IF ~disk.head
     THEN disk' = [disk EXCEPT !.head = TRUE] /\ UNCHANGED saving
     ELSE IF Len(disk.body) < Len(cache)
     THEN /\ disk' = [disk EXCEPT !.body = Append(@, cache[Len(disk.body) + 1])]
          /\ UNCHANGED saving
     ELSE /\ disk' = [disk EXCEPT !.tail = TRUE]
          /\ saving' = "idle"
  /\ UNCHANGED <<cache, loaded, last_put, puts, got>>

\* a write raises OSError: put raises, the file stays as far as it was written
SaveRaised ==
  /\ saving = "writing"
  /\ saving' = "idle"
  /\ UNCHANGED <<cache, disk, loaded, last_put, puts, got>>

\* the process dies in the middle of the save
Crash ==
  /\ saving = "writing"
  /\ saving' = "crashed"
  /\ UNCHANGED <<cache, disk, loaded, last_put, puts, got>>

\* get
Get(u) ==
  /\ saving = "idle"
  /\ got' = [url |-> u, page |-> CacheGet(cache, u)]
  /\ UNCHANGED <<cache, disk, saving, loaded, last_put, puts>>

\* what goes wrong when the file is opened and parsed
LoadFailure(f, readable) ==
  IF ~f.exists THEN "none"
  ELSE IF ~readable THEN "OSError"
  ELSE IF ~ParseFile(f).ok THEN "JSONDecodeError" ELSE "none"

\* "except (json.JSONDecodeError, OSError)"
LoadHandled(exc) == exc \in {"JSONDecodeError", "OSError"}

\* _load_cache at the construction of another instance: no file, a file
\* that cannot be read or a parse error give the empty cache
LoadCache ==
  /\ \E readable \in BOOLEAN :
       LET exc == LoadFailure(disk, readable)
       IN loaded' = [partial |-> disk.exists /\ ~ParseFile(disk).ok,
                     doc |-> IF exc = "none" /\ disk.exists
                             THEN ParseFile(disk).doc ELSE <<>>,
                     failed |-> exc,
                     raised |-> IF exc # "none" /\ ~LoadHandled(exc)
                                THEN exc ELSE "none"]
  /\ UNCHANGED <<cache, disk, saving, last_put, puts, got>>

\* the variables of the search call but the cache, and those of the index
notCacheVars ==
  <<max_pages, sitemap_enabled, max_content_length, tools, final, index, pc, tool_name, visited_urls,
    to_explore, collected_content, sources, pages_explored, has_sufficient,
    sitemap_candidates, current_url, cached_page, fetch_result, result, raised,
    fetchCalls, visitOrder, navCalls, llmCalls, cachePuts, indexCalls,
    indexRaises, failedFetch, navFailed, lastNav, indexVars, cancelVars,
    offlineVars>>

PutUrls == {u \in URLS : u[2] <= 2}

InitCache ==
  /\ AgentAtRest
  /\ now = 0
  /\ IndexAtRest
  /\ CacheAtRest
  /\ CancelAtRest
  /\ OfflineAtRest

NextCache ==
  \/ \E u \in PutUrls, content \in {"text", "other"} :
       Put(u, LlmSummary, content) /\ UNCHANGED <<now, notCacheVars>>
  \/ WriteChunk /\ UNCHANGED <<now, notCacheVars>>
  \/ SaveRaised /\ UNCHANGED <<now, notCacheVars>>
  \/ Crash /\ UNCHANGED <<now, notCacheVars>>
  \/ \E u \in PutUrls : Get(u) /\ UNCHANGED <<now, notCacheVars>>
  \/ LoadCache /\ UNCHANGED <<now, notCacheVars>>
  \/ Tick /\ UNCHANGED cache

SpecCache == InitCache /\ [][NextCache]_vars

(* -------------------- cancellation of a search ------------------------ *)
\* a handler that catches every exception, the cancellation too
ExceptionCaughtAll(exc) == TRUE

\* "except Exception": CancelledError derives from BaseException and passes
ExceptionCaught(exc) == exc # "CancelledError"

RECURSIVE FetchTotal(_)
\* the number of fetches made for the URLs of us
FetchTotal(us) ==
  IF us = {} THEN 0
  ELSE LET u == CHOOSE x \in us : TRUE IN fetchCalls[u] + FetchTotal(us \ {u})

\* the fetch, LLM and index requests the search has made
Requests == FetchTotal(URLS) + llmCalls + indexCalls

\* the await the search task is suspended at
Suspended ==
  \/ pc \in {"fetching", "navigating"}
  \/ pc = "idle" /\ indexRequested

\* the search reaches the await of ensure_indexed for its first web source
IndexRequest(tn) ==
  /\ pc = "idle"
  /\ ~indexRequested
  /\ GetTool(tn).found
  /\ sitemap_enabled
  /\ GetTool(tn).sources # <<>>
  /\ indexRequested' = TRUE
  /\ UNCHANGED <<searchVars, now, indexVars, cacheVars, offlineVars, cancel>>

\* search up to the loop, once the index request it waits for is back
PrimeAfterIndex(tn, contents) ==
  /\ (sitemap_enabled /\ GetTool(tn).sources # <<>>) => indexRequested
  /\ SearchPrime(tn, contents)

\* the caller cancels the task while it is suspended
CancelRequested ==
  /\ cancel.state = "none"
  /\ Suspended
  /\ cancel' = [state |-> "requested", calls |-> Requests]
  /\ UNCHANGED <<searchVars, now, indexVars, cacheVars, offlineVars,
                 indexRequested>>

\* the pending await raises CancelledError into the task: a handler that
\* catches it goes on as after any other failure (the index request and the
\* fetch are skipped, the navigator gives the safe default), else search
\* raises it
CancellationRaised ==
  /\ cancel.state = "requested"
  /\ cancel' = [cancel EXCEPT !.state = "delivered"]
  /\ IF ~ExceptionCaught("CancelledError")
     THEN /\ pc' = "raised"
          /\ raised' = "CancelledError"
          /\ UNCHANGED <<cache, cachePuts, collected_content, sources,
                         has_sufficient, to_explore, navFailed, lastNav>>
     ELSE IF pc = "navigating"
     THEN LET it == Iteration(SafeDefault(fetch_result), "ok")
          IN /\ pc' = "loop"
             /\ cache' = it.cache
             /\ cachePuts' = it.cachePuts
             /\ collected_content' = it.collected
             /\ sources' = it.sources
             /\ has_sufficient' = it.has_sufficient
             /\ to_explore' = it.to_explore
             /\ navFailed' = navFailed \cup {current_url}
             /\ UNCHANGED <<raised, lastNav>>
     ELSE /\ pc' = IF pc = "fetching" THEN "loop" ELSE pc
          /\ UNCHANGED <<cache, cachePuts, collected_content, sources,
                         has_sufficient, to_explore, navFailed, lastNav, raised>>
  /\ UNCHANGED <<engineVars, index, tool_name, visited_urls, pages_explored,
                 current_url, cached_page, fetch_result, sitemap_candidates,
                 result, final, fetchCalls, visitOrder, navCalls, llmCalls, failedFetch,
                 indexCalls, indexRaises, now, indexVars, cacheVars, offlineVars,
                 indexRequested>>

\* an await completes only while no cancellation is pending on it
NotCancelling == cancel.state # "requested"

InitCancel == Constructed({MaxPages}, {<<>>})

NextCancel ==
  \/ IndexRequest(ToolId)
  \/ CancelRequested
  \/ CancellationRaised
  \/ NotCancelling /\ PrimeAfterIndex(ToolId, IndexContents(1, FewScores))
  \/ NotCancelling /\ LoopHead
  \/ NotCancelling /\ FetchFailed
  \/ NotCancelling /\ FetchReturned({"text"})
  \/ NotCancelling /\ NavigatorReturned(NavOutcomes)
  \/ NotCancelling /\ ExitLoop

SpecCancel == InitCancel /\ [][NextCancel]_vars

(* ------------- SitemapIndex: index entries and their score ------------ *)
\* the words of URL paths and queries, with their lengths
Words == {"api", "auth", "guide", "v2", "index"}
WordLen(w) ==
  IF w = "v2" THEN 2 ELSE IF w = "api" THEN 3 ELSE IF w = "auth" THEN 4 ELSE 5

\* the path segments never kept as keywords
StopWords == {"html", "htm", "php", "asp", "www", "com", "org", "index"}

\* paths: sequences of segments, each segment one word
Paths == UNION {[1..n -> Words] : n \in 0..MaxDepth}

\* the priorities a sitemap can give, in tenths: float() of the element's
\* text, whatever its value; 5 when the element is missing
SitemapPriorities == {-10, 0, 5, 10}

\* the title hint of a path: its last segment
TitleHint(segments) == IF segments = <<>> THEN "" ELSE segments[Len(segments)]

\* _extract_keywords: the words of the path and of the title that are longer
\* than two characters, stop words of the path left out
ExtractKeywords(segments, title_hint) ==
  {w \in Range(segments) : WordLen(w) > 2 /\ w \notin StopWords}
  \cup (IF title_hint = "" THEN {} ELSE {w \in {title_hint} : WordLen(w) > 2})

\* the IndexedUrl _parse_sitemap builds
IndexedUrl(segments, priority) ==
  [path_segments |-> segments,
   title_hint |-> TitleHint(segments),
   keywords |-> ExtractKeywords(segments, TitleHint(segments)),
   depth |-> Len(segments),
   priority |-> priority]

\* the query words find_relevant_urls keeps
QueryTokens(q) == {w \in q : WordLen(w) > 2}

\* the score find_relevant_urls gives an entry, times 200: the weights 2.0,
\* 1.5 and 2.5 are counted in halves, the two factors in tenths
Score(entry, q) ==
  LET query_words == QueryTokens(q)
      keyword_matches == query_words \cap entry.keywords
      path_matches == query_words \cap Range(entry.path_segments)
      title_matches == query_words \cap {entry.title_hint}
      base == 4 * Cardinality(keyword_matches) + 3 * Cardinality(path_matches)
              + 5 * Cardinality(title_matches)
  IN base * (5 + entry.priority) * Max(5, 10 - entry.depth)

\* the entry is scored for both queries
FindRelevant ==
  /\ ~scorer.scored
  /\ scorer' = [scorer EXCEPT !.scored = TRUE,
                              !.s = Score(scorer.entry, scorer.q),
                              !.s2 = Score(scorer.entry, scorer.q2)]
  /\ UNCHANGED <<searchVars, now, indexVars, cacheVars, cancelVars, build, unitVars>>

InitScore ==
  /\ AgentAtRest
  /\ now = 0
  /\ IndexAtRest
  /\ CacheAtRest
  /\ CancelAtRest
  /\ build = NoBuild
  /\ UnitsAtRest
  /\ \E segments \in Paths, priority \in SitemapPriorities,
        q2 \in SUBSET Words :
       \E q \in SUBSET q2 :
         scorer = [NoScore EXCEPT !.entry = IndexedUrl(segments, priority),
                                  !.q = q, !.q2 = q2]

NextScore == FindRelevant

SpecScore == InitScore /\ [][NextScore]_vars

(* ---------------- SitemapIndex: the build of one index ----------------- *)
\* hosts, as their labels: the domain of the build, a host whose name
\* contains the name of the domain, and another host
DomainLabels == <<"docs", "example", "com">>
ContainingHost == <<"docs", "example", "com", "mirror", "net">>
OtherHost == <<"cdn", "example", "org">>

\* the URLs the sitemap and the pages of the site can name, in page order
SiteUrls ==
  [p \in 1..NumPaths |-> <<DomainLabels, p>>]
  \o <<<<ContainingHost, 1>>, <<OtherHost, 1>>>>

\* "domain in netloc", on whole labels
NetlocContains(netloc, domain) ==
  \E i \in 0..(Len(netloc) - Len(domain)) :
    SubSeq(netloc, i + 1, i + Len(domain)) = domain

\* the lists of at most MaxLinks URLs, in page order
UrlLists ==
  {SelectSeq(SiteUrls, LAMBDA u : u \in picked) :
     picked \in {S \in SUBSET Range(SiteUrls) : Cardinality(S) <= MaxLinks}}

\* _parse_sitemap: the entries in order, up to max_urls_per_domain of them
ParseSitemap(locs, cap) ==
  IF Len(locs) >= cap THEN Take(locs, Max(cap, 1)) ELSE locs

\* _fetch_links: the hrefs of the page whose host contains the domain
FetchLinks(hrefs, domain) ==
  SelectSeq(hrefs, LAMBDA u : NetlocContains(u[1], domain))

RECURSIVE NextBatchAnyDepth(_, _, _, _)
\* a batch that takes URLs of any depth
NextBatchAnyDepth(to_visit, visited, batch, limit) ==
  IF to_visit = <<>> \/ Len(batch) >= limit
  THEN [to_visit |-> to_visit, visited |-> visited, batch |-> batch]
  ELSE LET item == Head(to_visit)
       IN IF item[1] \notin visited
          THEN NextBatchAnyDepth(Tail(to_visit), visited \cup {item[1]},
                                 Append(batch, item), limit)
          ELSE NextBatchAnyDepth(Tail(to_visit), visited, batch, limit)

RECURSIVE NextBatch(_, _, _, _)
\* the inner while of _crawl_urls: pops until the batch is full, skipping
\* visited URLs and URLs beyond crawl_depth
NextBatch(to_visit, visited, batch, limit) ==
  IF to_visit = <<>> \/ Len(batch) >= limit
  THEN [to_visit |-> to_visit, visited |-> visited, batch |-> batch]
  ELSE LET item == Head(to_visit)
       IN IF item[1] \notin visited /\ item[2] <= crawl_depth
          THEN NextBatch(Tail(to_visit), visited \cup {item[1]},
                         Append(batch, item), limit)
          ELSE NextBatch(Tail(to_visit), visited, batch, limit)

RECURSIVE QueueLinks(_, _, _, _, _)
\* the links of a fetched page not yet visited join the queue, one level down
QueueLinks(links, n, depth, visited, to_visit) ==
  IF n = 0 THEN to_visit
  ELSE LET before == QueueLinks(links, n - 1, depth, visited, to_visit)
       IN IF links[n] \notin visited
          THEN Append(before, <<links[n], depth + 1>>) ELSE before

RECURSIVE BatchResults(_, _, _, _, _)
\* the for loop over the results of the batch: a failed fetch is skipped,
\* a fetched page is appended to urls and its links are queued
BatchResults(batch, results, n, b, domain) ==
  IF n = 0 THEN b
  ELSE LET before == BatchResults(batch, results, n - 1, b, domain)
           item == batch[n]
       IN IF results[n].failed THEN [before EXCEPT !.failed = @ \cup {item[1]}]
          ELSE [before EXCEPT
                  !.urls = Append(@, item[1]),
                  !.to_visit = QueueLinks(FetchLinks(results[n].hrefs, domain),
                                          Len(FetchLinks(results[n].hrefs, domain)),
                                          item[2], before.visited, @)]

\* the outer while of _crawl_urls, from its condition to the next gather or,
\* when the loop ends, to the index ensure_indexed stores
CrawlOn(b, t) ==
  LET nb == NextBatch(b.to_visit, b.visited, <<>>, b.parallel_fetch_limit)
      more == b.to_visit # <<>> /\ Len(b.urls) < b.max_urls_per_domain
  IN IF more /\ nb.batch # <<>>
     THEN [b EXCEPT !.phase = "gather", !.to_visit = nb.to_visit,
                    !.visited = nb.visited, !.batch = nb.batch,
                    !.batches = @ + 1, !.fetched = @ \o nb.batch]
     ELSE [b EXCEPT !.phase = "stored", !.batch = <<>>,
                    !.to_visit = IF more THEN nb.to_visit ELSE @,
                    !.visited = IF more THEN nb.visited ELSE @,
                    !.stored = DomainIndex(t, b.urls, "crawl")]

\* the results a gather can give the fetches of a batch
FetchResults == [failed : {TRUE}, hrefs : {<<>>}] \cup [failed : {FALSE}, hrefs : UrlLists]

\* _fetch_sitemap returned: the entries of the sitemap are stored, or, with
\* no entry, the crawl starts at the start URL
SitemapReturned ==
  /\ build.phase = "sitemap"
  /\ \E locs \in UrlLists :
       LET urls == ParseSitemap(locs, build.max_urls_per_domain)
       IN IF urls # <<>>
          THEN build' = [build EXCEPT !.phase = "stored", !.urls = urls,
                                      !.stored = DomainIndex(now, urls, "sitemap")]
          ELSE build' = CrawlOn([build EXCEPT !.to_visit = <<<<<<DomainLabels, 1>>, 0>>>>],
                                now)
  /\ UNCHANGED <<searchVars, now, indexVars, cacheVars, cancelVars, scorer, unitVars>>

\* the gather of a batch returned, each fetch with one of the results
BatchReturnedWith(fetch_results) ==
  /\ build.phase = "gather"
  /\ \E results \in [1..Len(build.batch) -> fetch_results] :
       build' = CrawlOn(BatchResults(build.batch, results, Len(build.batch),
                                     build, DomainLabels), now)
  /\ UNCHANGED <<searchVars, now, indexVars, cacheVars, cancelVars, scorer, unitVars>>

BatchReturned == BatchReturnedWith(FetchResults)

InitBuild ==
  /\ AgentAtRest
  /\ now = 0
  /\ IndexAtRest
  /\ CacheAtRest
  /\ CancelAtRest
  /\ scorer = NoScore
  /\ UnitsAtRest
  /\ \E limit \in 1..ParallelLimit :
       build = [NoBuild EXCEPT !.phase = "sitemap",
                               !.max_urls_per_domain = MaxUrls,
                               !.parallel_fetch_limit = limit]

NextBuild ==
  \/ SitemapReturned
  \/ BatchReturned

SpecBuild == InitBuild /\ [][NextBuild]_vars

(* crawls of a site of ChainLen pages, under a cap no crawl reaches: a page *)
(* links to nothing, to one page, or to a page and the page after it       *)
ChainUrls == [p \in 1..ChainLen |-> <<DomainLabels, p>>]
ChainLists ==
  {<<>>} \cup {<<ChainUrls[p]>> : p \in 1..ChainLen}
  \cup {<<ChainUrls[p], ChainUrls[p + 1]>> : p \in 1..(ChainLen - 1)}
ChainResults == [failed : {TRUE}, hrefs : {<<>>}] \cup [failed : {FALSE}, hrefs : ChainLists]

InitCrawl ==
  /\ AgentAtRest
  /\ now = 0
  /\ IndexAtRest
  /\ CacheAtRest
  /\ CancelAtRest
  /\ scorer = NoScore
  /\ UnitsAtRest
  /\ \E limit \in 1..ParallelLimit :
       build = CrawlOn([NoBuild EXCEPT !.max_urls_per_domain = ChainLen + 1,
                                       !.parallel_fetch_limit = limit,
                                       !.to_visit = <<<<ChainUrls[1], 0>>>>], 0)

NextCrawl == BatchReturnedWith(ChainResults)

SpecCrawl == InitCrawl /\ [][NextCrawl]_vars

(* ------------- the frontier: to_explore beside a min-heap ------------- *)
\* the heap entry that is least in (priority, insertion number)
HeapMin(heap) ==
  CHOOSE m \in heap :
    \A e \in heap : m[1] < e[1] \/ (m[1] = e[1] /\ m[2] <= e[2])

\* to_explore.append((url, priority)), and the push on the heap
Enqueue(url, priority) ==
  /\ frontier.seq < MaxEnqueues
  /\ frontier' = [frontier EXCEPT
                    !.list = Append(@, <<url, priority>>),
                    !.heap = @ \cup {<<priority, frontier.seq, url>>},
                    !.seq = @ + 1]
  /\ UNCHANGED <<searchVars, now, indexVars, cacheVars, cancelVars, scorer, build,
                 recs, priming, discovery, duo, compressor, index_file>>

\* to_explore.sort(key=...); to_explore.pop(0), and the pop of the heap
Dequeue ==
  /\ frontier.list # <<>>
  /\ LET sorted == SortStable(frontier.list, 1)
         m == HeapMin(frontier.heap)
     IN frontier' = [frontier EXCEPT
                       !.list = Popped(sorted),
                       !.out = Append(@, sorted[1]),
                       !.heap = @ \ {m},
                       !.heap_out = Append(@, <<m[3], m[1]>>)]
  /\ UNCHANGED <<searchVars, now, indexVars, cacheVars, cancelVars, scorer, build,
                 recs, priming, discovery, duo, compressor, index_file>>

\* the priorities of the entries: candidates, seeds, recommendations
FrontierPriorities == {0, SeedPriority, SeedPriority + 1}

InitFrontier ==
  /\ AgentAtRest
  /\ ComponentsAtRest

(* --------------------- ContentCompressor.compress ---------------------- *)
\* what _client.compress_input can do: answer, raise one of the errors of
\* the tokenc library, or raise another exception
CallOutcomes ==
  {"ok", "AuthenticationError", "InvalidRequestError", "RateLimitError", "APIError",
   "Exception"}
\* the values of min_content_length
MinLengths == {0, 2, 1000}
\* the contents, by their characters
Contents == UNION {[1..n -> {"c"}] : n \in 0..MaxContent}

\* ContentCompressor.__init__: a client is made when compression is enabled,
\* the library is there, a key is given and the constructor does not raise
IsAvailable(c) == c.enabled /\ c.tokenc_available /\ c.api_key /\ ~c.client_raises

\* the branch compress takes
CompressCase(c) ==
  IF ~IsAvailable(c) THEN "unavailable"
  ELSE IF Len(c.content) < c.min_content_length THEN "short"
  ELSE IF c.call = "ok" THEN "compressed"
  ELSE "error"

\* compress(content) returned, or raised
CompressCalled ==
  /\ compressor.phase = "ready"
  /\ compressor' = [compressor EXCEPT
                      !.phase = "called",
                      !.result = Compress(compressor.content, CompressCase(compressor))]
  /\ UNCHANGED <<searchVars, now, indexVars, cacheVars, cancelVars, scorer, build,
                 frontier, recs, priming, discovery, duo, index_file>>

InitCompress ==
  /\ AgentAtRest
  /\ now = 0
  /\ IndexAtRest
  /\ CacheAtRest
  /\ CancelAtRest
  /\ scorer = NoScore
  /\ build = NoBuild
  /\ frontier = NoFrontier
  /\ recs = NoRecs
  /\ priming = NoPriming
  /\ discovery = NoDiscovery
  /\ duo = NoDuo
  /\ index_file = NoIndexFile
  /\ compressor \in [phase : {"ready"}, enabled : BOOLEAN, tokenc_available : BOOLEAN,
                     api_key : BOOLEAN, client_raises : BOOLEAN,
                     min_content_length : MinLengths, content : Contents,
                     call : CallOutcomes, result : {<<>>}]

NextCompress == CompressCalled

SpecCompress == InitCompress /\ [][NextCompress]_vars

(* ------------- two searches of one tool on the same engine ------------- *)
Searchers == 1..2
\* the summaries the navigator gives the two searches
SummaryOf(i) == IF i = 1 THEN LlmSummary ELSE PageTitle
\* the links a decision names
DuoLinks == {<<>>, <<<<Host, 2>>>>, <<<<Host, 2>>, <<Host, 3>>>>}

\* _deep_search of searcher i at the head of its loop: the loop ends, or a
\* URL is popped and, unless visited, looked up in the shared cache
DuoLoopHead(i) ==
  LET me == duo.s[i]
  IN /\ me.pc = "loop"
     /\ IF me.to_explore = <<>> \/ ~BudgetLeft(me.pages_explored, MaxPages)
        THEN duo' = [duo EXCEPT !.s[i].pc = "done"]
        ELSE LET sorted == SortStable(me.to_explore, 1)
                 url == sorted[1][1]
                 hit == CacheGet(duo.cache, url)
             IN IF NextUrlIsVisited(url, me.visited_urls)
                THEN duo' = [duo EXCEPT !.s[i].to_explore = Popped(sorted)]
                ELSE duo' = [duo EXCEPT
                       !.s[i] = [me EXCEPT
                          !.to_explore = Popped(sorted),
                          !.visited_urls = @ \cup {url},
                          !.pages_explored = @ + 1,
                          !.order = Append(@, url),
                          !.current_url = url,
                          !.cached_page = hit,
                          !.fetches = IF hit = NoPage THEN Append(@, url) ELSE @,
                          !.pc = IF hit = NoPage THEN "fetching" ELSE "navigating"]]
     /\ UNCHANGED <<searchVars, now, indexVars, cacheVars, cancelVars, scorer, build,
                    frontier, recs, priming, discovery, compressor, index_file>>

\* the fetch of searcher i raised: the page is skipped
DuoFetchFailed(i) ==
  /\ duo.s[i].pc = "fetching"
  /\ duo' = [duo EXCEPT !.s[i].pc = "loop",
                        !.s[i].failed = @ \cup {duo.s[i].current_url}]
  /\ UNCHANGED <<searchVars, now, indexVars, cacheVars, cancelVars, scorer, build,
                 frontier, recs, priming, discovery, compressor, index_file>>

\* the fetch of searcher i returned a page with content
DuoFetchReturned(i) ==
  /\ duo.s[i].pc = "fetching"
  /\ duo' = [duo EXCEPT !.s[i].pc = "navigating"]
  /\ UNCHANGED <<searchVars, now, indexVars, cacheVars, cancelVars, scorer, build,
                 frontier, recs, priming, discovery, compressor, index_file>>

\* _analyze_page of searcher i returned a decision with the given links:
\* the put of a fetched page, then the links, without an await between
DuoNavigatorReturned(i, links) ==
  LET me == duo.s[i]
      put == me.cached_page = NoPage
      page == CachedPage(me.current_url, SummaryOf(i), "text", Host)
  IN /\ me.pc = "navigating"
     /\ duo' = [duo EXCEPT
          !.cache = IF put THEN CachePut(@, page) ELSE @,
          !.writes = IF put THEN Append(@, <<i, me.current_url>>) ELSE @,
          !.s[i].to_explore = @ \o RecommendedLinks(links, Len(links), me.visited_urls,
                                                    me.pages_explored),
          !.s[i].pc = "loop"]
     /\ UNCHANGED <<searchVars, now, indexVars, cacheVars, cancelVars, scorer, build,
                    frontier, recs, priming, discovery, compressor, index_file>>

\* a search that has queued its seed
SeedQueued ==
  [pc |-> "loop", to_explore |-> <<<<<<Host, 1>>, SeedPriority>>>>, visited_urls |-> {},
   pages_explored |-> 0, order |-> <<>>, current_url |-> NoUrl, cached_page |-> NoPage,
   fetches |-> <<>>, failed |-> {}]

InitDuo ==
  /\ AgentAtRest
  /\ now = 0
  /\ IndexAtRest
  /\ CacheAtRest
  /\ CancelAtRest
  /\ scorer = NoScore
  /\ build = NoBuild
  /\ frontier = NoFrontier
  /\ recs = NoRecs
  /\ priming = NoPriming
  /\ discovery = NoDiscovery
  /\ compressor = NoCompressor
  /\ index_file = NoIndexFile
  /\ duo = [cache |-> <<>>, s |-> [i \in Searchers |-> SeedQueued], writes |-> <<>>]

NextDuo ==
  \E i \in Searchers :
    \/ DuoLoopHead(i)
    \/ DuoFetchFailed(i)
    \/ DuoFetchReturned(i)
    \/ \E links \in DuoLinks : DuoNavigatorReturned(i, links)

SpecDuo == InitDuo /\ [][NextDuo]_vars

(* ---------- sitemap discovery and the fallback to the crawl ----------- *)
\* what a request of the discovery can meet: no 200 answer or an exception,
\* a 200 answer whose parse gives no entry, a 200 answer with entries
Answers == {"error", "empty", "urls"}
\* robots.txt: no 200 answer, no Sitemap: line, or one line whose sitemap
\* gives one of the answers
RobotsAnswers == {"error", "no_lines", "ref_error", "ref_empty", "ref_urls"}

\* the list sitemap_urls, without the www. variant for a www. domain
SitemapUrls(www_domain) ==
  IF www_domain THEN <<"sitemap.xml", "sitemap_index.xml">>
  ELSE <<"sitemap.xml", "sitemap_index.xml", "www/sitemap.xml">>

\* the sites: the answer to each request, and whether the domain starts with
\* www. (its www. variant then is not asked and is set to "error")
Sites ==
  {st \in [www_domain : BOOLEAN, answers : [Range(SitemapUrls(FALSE)) -> Answers],
           robots : RobotsAnswers] :
     st.www_domain => st.answers["www/sitemap.xml"] = "error"}

\* the entries a sitemap gives, and the lists a crawl can give
SitemapEntries == <<<<DomainLabels, 1>>>>
CrawlResults == {<<>>, <<<<DomainLabels, 2>>>>}

\* the for loop of _fetch_sitemap from request i on: the first 200 answer
\* returns its parse, whatever it holds
RECURSIVE TrySitemaps(_, _, _)
TrySitemaps(st, sitemap_urls, i) ==
  IF i > Len(sitemap_urls)
  THEN [tried |-> sitemap_urls, returned |-> FALSE, urls |-> <<>>]
  ELSE IF st.answers[sitemap_urls[i]] = "error"
  THEN TrySitemaps(st, sitemap_urls, i + 1)
  ELSE [tried |-> Take(sitemap_urls, i), returned |-> TRUE,
        urls |-> IF st.answers[sitemap_urls[i]] = "urls" THEN SitemapEntries ELSE <<>>]

\* _fetch_sitemap: the loop, then robots.txt and the sitemap it names; None
\* is returned |-> FALSE
FetchSitemap(st) ==
  LET loop == TrySitemaps(st, SitemapUrls(st.www_domain), 1)
      tried == Append(loop.tried, "robots.txt")
  IN IF loop.returned THEN loop
     ELSE IF st.robots \in {"ref_empty", "ref_urls"}
     THEN [tried |-> tried, returned |-> TRUE,
           urls |-> IF st.robots = "ref_urls" THEN SitemapEntries ELSE <<>>]
     ELSE [tried |-> tried, returned |-> FALSE, urls |-> <<>>]

\* the build of ensure_indexed: discovery, the crawl if "not urls", the store
IndexBuilt ==
  /\ discovery.phase = "ready"
  /\ \E crawled \in CrawlResults :
       LET found == FetchSitemap(discovery.site)
           fallback == found.urls = <<>>
       IN discovery' = [phase |-> "stored", site |-> discovery.site,
                        tried |-> found.tried,
                        source_type |-> IF fallback THEN "crawl" ELSE "sitemap",
                        urls |-> IF fallback THEN crawled ELSE found.urls]
  /\ UNCHANGED <<searchVars, now, indexVars, cacheVars, cancelVars, scorer, build,
                 frontier, recs, priming, duo, compressor, index_file>>

InitDiscover ==
  /\ AgentAtRest
  /\ now = 0
  /\ IndexAtRest
  /\ CacheAtRest
  /\ CancelAtRest
  /\ scorer = NoScore
  /\ build = NoBuild
  /\ frontier = NoFrontier
  /\ recs = NoRecs
  /\ priming = NoPriming
  /\ duo = NoDuo
  /\ compressor = NoCompressor
  /\ index_file = NoIndexFile
  /\ \E st \in Sites : discovery = [phase |-> "ready", site |-> st]

NextDiscover == IndexBuilt

SpecDiscover == InitDiscover /\ [][NextDiscover]_vars

(* --------- ensure_indexed for a domain that answers no request --------- *)
\* the sites whose discovery gives no entry: every step fails, or a step
\* answers with a document that has no entry
DeadSites == {st \in Sites : FetchSitemap(st).urls = <<>>}

\* the crawl from the start URL when every fetch of every batch fails
RECURSIVE CrawlAllFailed(_, _)
CrawlAllFailed(b, t) ==
  IF b.phase # "gather" THEN b
  ELSE LET results == [i \in 1..Len(b.batch) |-> [failed |-> TRUE, hrefs |-> <<>>]]
       IN CrawlAllFailed(CrawlOn(BatchResults(b.batch, results, Len(b.batch), b,
                                              DomainLabels), t), t)

\* the build of ensure_indexed on a dead site: the discovery, the crawl, the
\* store and the save of the index file, which can raise
BuildFoundNothing(c) ==
  /\ callers[c] = "building"
  /\ \E st \in DeadSites, limit \in 1..ParallelLimit, save \in {"ok", "OSError"} :
       LET start == [NoBuild EXCEPT !.max_urls_per_domain = MaxUrls,
                                    !.parallel_fetch_limit = limit,
                                    !.to_visit = <<<<<<DomainLabels, 1>>, 0>>>>]
           crawled == CrawlAllFailed(CrawlOn(start, now), now)
       IN /\ domain_index' = (Host :> crawled.stored) @@ domain_index
          /\ IF save = "ok"
             THEN /\ callers' = [callers EXCEPT ![c] = "returned"]
                  /\ retAge' = [retAge EXCEPT ![c] =
                                  StatsAge((Host :> crawled.stored), Host, now)]
             ELSE /\ callers' = [callers EXCEPT ![c] = "save_raised"]
                  /\ UNCHANGED retAge
  /\ storedAt' = Append(storedAt, now)
  /\ lock_holder' = 0
  /\ UNCHANGED <<searchVars, cacheVars, cancelVars, offlineVars, now, ttl, netBuilds,
                 buildFailures, overlapped>>

NextDead ==
  \/ \E c \in Callers : EnsureCall(c)
  \/ \E c \in Callers : EnsureEnter(c)
  \/ \E c \in Callers : BuildFoundNothing(c)
  \/ Tick

SpecDead == InitIndex /\ [][NextDead]_vars

(* ------- one PageCache and one SitemapIndex, each with its file -------- *)
\* the variables no operation on the two stores touches
steadyVars ==
  <<max_pages, sitemap_enabled, max_content_length, tools, final, index, pc, tool_name,
    visited_urls, to_explore, collected_content, sources, pages_explored,
    has_sufficient, sitemap_candidates, current_url, cached_page, fetch_result,
    result, raised, fetchCalls, visitOrder, navCalls, llmCalls, cachePuts, indexCalls,
    indexRaises, failedFetch, navFailed, lastNav, now, ttl, callers, lock_holder,
    netBuilds, buildFailures, storedAt, overlapped, retAge, saving, loaded,
    cancelVars, scorer, build, frontier, recs, priming, discovery, duo, compressor>>

StoreDomains == {Host, BlogHost}
NoDomain == "None"
SaveResults == {"ok", "OSError"}

\* _save_cache: the whole document, or an OSError after open(path, "w")
SaveCache(c, save) ==
  IF save = "ok" THEN [exists |-> TRUE, head |-> TRUE, body |-> c, tail |-> TRUE]
  ELSE Truncated

\* _load_cache of a new instance on the file
LoadedCache(f) == IF f.exists /\ ParseFile(f).ok THEN ParseFile(f).doc ELSE <<>>

\* _save_index: the whole document, or an OSError after open(path, "w")
SaveIndex(idx, save) ==
  [exists |-> TRUE, complete |-> save = "ok", doc |-> IF save = "ok" THEN idx ELSE <<>>]

\* _load_index of a new instance on the file
LoadIndex(f) == IF f.exists /\ f.complete THEN f.doc ELSE <<>>

\* the operation that just ended, and whether it returned
Done(on, op, save) == [on |-> on, op |-> op, completed |-> save = "ok"]

\* del self._index[domain]
Remove(idx, domain) == [d \in DOMAIN idx \ {domain} |-> idx[d]]

\* PageCache.put: the entry is set, then the file is written
PutSaved(u, summary, content) ==
  /\ puts < MaxPuts
  /\ \E save \in SaveResults :
       LET c == CachePut(cache, CachedPage(u, summary, content, Netloc(u)))
       IN /\ cache' = c
          /\ disk' = SaveCache(c, save)
          /\ index_file' = [index_file EXCEPT !.last = Done("cache", "put", save)]
  /\ last_put' = PutArgs(u, summary, content, Netloc(u))
  /\ puts' = puts + 1
  /\ UNCHANGED <<steadyVars, got, domain_index>>

\* PageCache.clear: every page, or the pages of the domain, then the save
CacheClear(domain) ==
  /\ \E save \in SaveResults :
       LET c == IF domain = NoDomain THEN <<>>
                ELSE SelectSeq(cache, LAMBDA page : page.domain # domain)
       IN /\ cache' = c
          /\ disk' = SaveCache(c, save)
          /\ index_file' = [index_file EXCEPT !.last = Done("cache", "clear", save)]
  /\ UNCHANGED <<steadyVars, got, last_put, puts, domain_index>>

\* PageCache.get
CacheRead(u) ==
  /\ got' = [url |-> u, page |-> CacheGet(cache, u)]
  /\ index_file' = [index_file EXCEPT !.last = Done("cache", "get", "ok")]
  /\ UNCHANGED <<steadyVars, cache, disk, last_put, puts, domain_index>>

\* PageCache.find_similar
CacheSearched(domain) ==
  /\ got' = [url |-> NoUrl, page |-> FindSimilar(cache, domain)]
  /\ index_file' = [index_file EXCEPT !.last = Done("cache", "find_similar", "ok")]
  /\ UNCHANGED <<steadyVars, cache, disk, last_put, puts, domain_index>>

\* ensure_indexed on a stale domain: the build is stored, then the file is
\* written
IndexStored(domain, built) ==
  /\ IsStale(domain_index, domain, now, ttl)
  /\ \E save \in SaveResults :
       LET idx == (domain :> DomainIndex(now, built, "sitemap")) @@ domain_index
       IN /\ domain_index' = idx
          /\ index_file' = [index_file EXCEPT !.file = SaveIndex(idx, save),
                                               !.last = Done("index", "build", save)]
  /\ UNCHANGED <<steadyVars, cache, disk, got, last_put, puts>>

\* SitemapIndex.clear: one domain if it is indexed, else nothing; every
\* domain when no domain is given
IndexClear(domain) ==
  /\ \E save \in SaveResults :
       IF domain # NoDomain
       THEN IF domain \in DOMAIN domain_index
            THEN /\ domain_index' = Remove(domain_index, domain)
                 /\ index_file' =
                      [index_file EXCEPT !.file = SaveIndex(Remove(domain_index, domain), save),
                                         !.last = Done("index", "clear", save)]
            ELSE /\ UNCHANGED domain_index
                 /\ index_file' = [index_file EXCEPT !.last = Done("index", "clear", "ok")]
       ELSE /\ domain_index' = <<>>
            /\ index_file' = [index_file EXCEPT !.file = SaveIndex(<<>>, save),
                                                !.last = Done("index", "clear", save)]
  /\ UNCHANGED <<steadyVars, cache, disk, got, last_put, puts>>

\* find_relevant_urls and get_domain_stats
IndexRead(op) ==
  /\ index_file' = [index_file EXCEPT !.last = Done("index", op, "ok")]
  /\ UNCHANGED <<steadyVars, cache, disk, got, last_put, puts, domain_index>>

NextPersist ==
  \/ \E u \in {<<Host, 1>>, OtherUrl} : PutSaved(u, LlmSummary, "text")
  \/ \E d \in {NoDomain, Host} : CacheClear(d)
  \/ \E u \in {<<Host, 1>>, OtherUrl} : CacheRead(u)
  \/ CacheSearched(Host)
  \/ \E d \in StoreDomains : IndexStored(d, <<[url |-> <<d, 1>>, score |-> 15]>>)
  \/ \E d \in StoreDomains \cup {NoDomain} : IndexClear(d)
  \/ \E op \in {"find_relevant", "stats"} : IndexRead(op)

SpecPersist == InitCache /\ [][NextPersist]_vars

(* --------- the loop over pages whose links nobody else names ---------- *)
\* link i of the decision on the page explored as number k: a URL no other
\* decision names
RecUrl(k, i) == <<Host, 100 * k + i>>
RecPage(u) == u[2] \div 100
RecIndex(u) == u[2] % 100

\* the numbers of links of the decision on the page explored as number
\* explored: the first page names none, three (the most the prompt asks
\* for) or twelve (the code takes any number), a later page none or one
LinkCounts(explored) == IF explored = 1 THEN {0, 3, 12} ELSE {0, 1}

\* one iteration of the loop on a page that is fetched and gets a decision
\* of n links, none of them visited or queued
ExploreRecommended(n) ==
  /\ recs.to_explore # <<>>
  /\ BudgetLeft(recs.pages_explored, RecPages)
  /\ LET sorted == SortStable(recs.to_explore, 1)
         url == sorted[1][1]
         explored == recs.pages_explored + 1
         visited == recs.visited_urls \cup {url}
         links == [i \in 1..n |-> RecUrl(explored, i - 1)]
     IN recs' = [to_explore |-> Popped(sorted)
                                \o RecommendedLinks(links, n, visited, explored),
                 visited_urls |-> visited,
                 pages_explored |-> explored,
                 order |-> Append(recs.order, url)]
  /\ UNCHANGED <<searchVars, now, indexVars, cacheVars, cancelVars, scorer, build,
                 frontier, priming, discovery, duo, compressor, index_file>>

InitRecs ==
  /\ AgentAtRest
  /\ now = 0
  /\ IndexAtRest
  /\ CacheAtRest
  /\ CancelAtRest
  /\ scorer = NoScore
  /\ build = NoBuild
  /\ frontier = NoFrontier
  /\ recs = [NoRecs EXCEPT !.to_explore = <<<<RecUrl(0, 0), SeedPriority>>>>]
  /\ priming = NoPriming
  /\ discovery = NoDiscovery
  /\ duo = NoDuo
  /\ compressor = NoCompressor
  /\ index_file = NoIndexFile

NextRecs == \E n \in LinkCounts(recs.pages_explored + 1) : ExploreRecommended(n)

SpecRecs == InitRecs /\ [][NextRecs]_vars

(* ------------- the priorities given before the loop starts ------------ *)
\* float("inf"), which float() gives for the sitemap priority "inf" and a
\* matching URL's score inherits; scores are in tenths
Infinity == 1000000
\* 10 - score in floating point, in tenths
TenMinus(score) == IF score = Infinity THEN -Infinity ELSE 100 - score
\* int() of a float raises OverflowError on an infinity
IntRaises(v) == v = Infinity \/ v = -Infinity

\* the scores a candidate can have: min_match_score or more, or infinite
CandidateScores == min_match_score..ScoreSpan \cup {Infinity}

\* a sitemap candidate of the given score is put on the frontier
PrimeCandidate(score) ==
  /\ priming = NoPriming
  /\ priming' = IF IntRaises(TenMinus(score))
                THEN [kind |-> "candidate", score |-> score,
                      raised |-> "OverflowError"]
                ELSE [kind |-> "candidate", score |-> score, raised |-> "none",
                      priority |-> CandidatePriority(score)]
  /\ UNCHANGED <<searchVars, now, indexVars, cacheVars, cancelVars, scorer, build,
                 frontier, recs, discovery, duo, compressor, index_file>>

\* a seed URL is put on the frontier
PrimeSeed ==
  /\ priming = NoPriming
  /\ priming' = [kind |-> "seed", raised |-> "none", priority |-> SeedPriority]
  /\ UNCHANGED <<searchVars, now, indexVars, cacheVars, cancelVars, scorer, build,
                 frontier, recs, discovery, duo, compressor, index_file>>

InitPriming ==
  /\ AgentAtRest
  /\ ComponentsAtRest

NextPriming ==
  \/ \E score \in CandidateScores : PrimeCandidate(score)
  \/ PrimeSeed

SpecPriming == InitPriming /\ [][NextPriming]_vars

NextFrontier ==
  \/ \E u \in PutUrls, priority \in FrontierPriorities : Enqueue(u, priority)
  \/ Dequeue

SpecFrontier == InitFrontier /\ [][NextFrontier]_vars

TypeOK ==
  /\ pc \in {"idle", "loop", "fetching", "navigating", "done", "raised"}
  /\ pages_explored \in 0..max_pages
  /\ visited_urls \subseteq URLS \cup {ExtraUrl, OtherUrl}

(* ----------------------------- properties ----------------------------- *)
FetchedUrls == {u \in URLS : fetchCalls[u] > 0}
Seeds == Range(GetTool(ToolId).sources)
Pending == {to_explore[i][1] : i \in DOMAIN to_explore}
Excerpted == {collected_content[i].url : i \in DOMAIN collected_content}

\* C1: the number of distinct URLs passed to the web fetcher during one
\* search never exceeds max_pages.
C1_FetchesWithinBudget == Cardinality(FetchedUrls) <= max_pages

\* the budget is what stopped the search: it is used up by fetches while an
\* unvisited URL is still queued
C1_BudgetBinds ==
  /\ pc = "done"
  /\ ~has_sufficient
  /\ Cardinality(FetchedUrls) = max_pages
  /\ Pending \ visited_urls # {}

\* C2: the web fetcher is called at most once for any URL, however often
\* the URL was queued, and a page answered from the cache is not fetched.
C2_FetchedAtMostOnce ==
  /\ \A u \in URLS : fetchCalls[u] <= 1
  /\ (pc = "navigating" /\ cached_page # NoPage) => fetchCalls[current_url] = 0

\* a URL queued as sitemap candidate and as seed was fetched once, and the
\* queue ran empty with budget left, so its second entry was popped too
C2_QueuedTwiceFetchedOnce ==
  /\ pc = "done"
  /\ to_explore = <<>>
  /\ pages_explored < max_pages
  /\ \E u \in Seeds : fetchCalls[u] = 1
                      /\ <<"[sitemap-match] ", u>> \in Range(sources)

\* C3: when a decision reports has_sufficient_info, has_sufficient is set and
\* none of its links is queued; from then on nothing is popped, fetched or
\* navigated, and the next step is the end of the search: the synthesis call
\* over what was collected (no call when nothing was collected).
C3_SufficiencyExits ==
  [][/\ (pc = "navigating" /\ lastNav'.sufficient /\ pc' # "raised")
          => (has_sufficient' /\ to_explore' = to_explore /\ pc' = "loop")
     /\ (lastNav.sufficient /\ pc = "loop")
          => /\ pc' \in {"done", "raised"}
             /\ collected_content' # <<>> => llmCalls' = llmCalls + 1
             /\ UNCHANGED <<to_explore, visitOrder, fetchCalls, navCalls,
                            visited_urls, pages_explored>>]_vars

\* a search that ended on a sufficient decision that had links, with URLs
\* still queued and budget left
C3_StoppedEarly ==
  /\ pc = "done"
  /\ lastNav.sufficient
  /\ lastNav.links > 0
  /\ Pending \ visited_urls # {}
  /\ pages_explored < max_pages

Prefetched == {u \in URLS : <<"[cached] ", u>> \in Range(sources)}
CandidateUrls == {sitemap_candidates[i][1] : i \in DOMAIN sitemap_candidates}
Pos(u) == CHOOSE i \in DOMAIN visitOrder : visitOrder[i] = u
VisitedBefore(a, b) == a \in Range(visitOrder) /\ Pos(a) < Pos(b)

\* C4: with a quiet navigator, whenever a sitemap candidate has been visited
\* every candidate of higher score was visited before it, and whenever a
\* seed that is no candidate has been visited every candidate was visited
\* before it (candidates already taken from the cache are never queued).
C4_CandidatesByScoreThenSeeds ==
  /\ \A i, j \in DOMAIN sitemap_candidates :
       LET a == sitemap_candidates[i]
           b == sitemap_candidates[j]
       IN (a[2] > b[2] /\ b[2] >= min_match_score /\ a[1] \notin Prefetched
             /\ b[1] \in Range(visitOrder))
            => VisitedBefore(a[1], b[1])
  /\ \A i \in DOMAIN sitemap_candidates, s \in Seeds \ CandidateUrls :
       (sitemap_candidates[i][1] \notin Prefetched /\ s \in Range(visitOrder))
         => VisitedBefore(sitemap_candidates[i][1], s)

\* two candidates of different score and equal priority were visited in
\* score order, against their sitemap order, and the seed after them
C4_EqualPriorityInScoreOrder ==
  /\ Len(visitOrder) = 3
  /\ Len(sitemap_candidates) = 2
  /\ sitemap_candidates[1][2] > sitemap_candidates[2][2]
  /\ CandidatePriority(sitemap_candidates[1][2]) = CandidatePriority(sitemap_candidates[2][2])
  /\ sitemap_candidates[1][1][2] > sitemap_candidates[2][1][2]
  /\ visitOrder[1] = sitemap_candidates[1][1]
  /\ visitOrder[2] = sitemap_candidates[2][1]
  /\ visitOrder[3] \in Seeds \ CandidateUrls

\* C5: no failure inside the exploration loop leaves search: only the
\* synthesis can raise.
C5_LoopFailuresContained == raised \in {"none", "LLMError"}

\* C6: a page whose navigator call raised or answered no JSON gets the safe
\* default: the step adds no excerpt and no queue entry, keeps the count made
\* at the pop, does not stop the loop, and the navigator failure itself is
\* not raised (only a failing cache write of the same step is).
C6_NavigatorFailureIsSafeDefault ==
  [][(pc = "navigating" /\ lastNav'.kind \in {"llm_error", "bad_json"})
       => /\ lastNav'.safe_default
          /\ ~lastNav'.sufficient
          /\ UNCHANGED <<collected_content, sources, to_explore, has_sufficient,
                         pages_explored, visited_urls>>
          /\ current_url \in visited_urls
          /\ pages_explored >= Len(navCalls)
          /\ \/ pc' = "loop" /\ raised' = "none"
             \/ /\ pc' = "raised" /\ raised' = "OSError"
                /\ ShouldCache(cached_page, fetch_result)]_vars

\* the first page's navigator call failed, the second page was explored after
\* it, and the answer was synthesised from the second page's excerpt
C6_LaterPagesExplored ==
  /\ pc = "done"
  /\ "content" \in DOMAIN result
  /\ result.content = "answer"
  /\ Len(visitOrder) = 2
  /\ result.pages_explored = 2
  /\ visitOrder[1] \in navFailed
  /\ visitOrder[1] \notin Excerpted
  /\ visitOrder[2] \in Excerpted

\* C7: a failed fetch changes nothing but the position in the loop: the URL
\* stays visited, the count made at the pop stands, the navigator is not
\* called, nothing is collected, queued or cached; and the URL is never
\* fetched again or navigated later in the search.
C7_FetchFailureDropsUrl ==
  [][/\ (pc = "fetching" /\ pc' = "loop")
          => /\ UNCHANGED <<visited_urls, pages_explored, navCalls, llmCalls,
                            collected_content, sources, to_explore, cache,
                            cachePuts, raised>>
             /\ current_url \in visited_urls
             /\ pages_explored >= 1
     /\ \A u \in failedFetch :
          /\ fetchCalls'[u] = fetchCalls[u]
          /\ u \in visited_urls'
          /\ u \notin Range(navCalls')]_vars

\* after a failed fetch the loop went on to fetch the next URL
C7_NextUrlFetched ==
  /\ pc = "fetching"
  /\ failedFetch # {}
  /\ current_url \notin failedFetch

\* C8: a failing synthesis call gives the caller an error record, not an
\* exception.
C8_SynthesisFailureIsRecord ==
  raised = "LLMError" => (pc = "done" /\ "error" \in DOMAIN result)

\* C9 as stated: after a failed index build of the search no sitemap
\* candidate is used.
C9_AnyBuildFailure ==
  (tool_name = ToolId /\ indexRaises > 0)
    => /\ sitemap_candidates = <<>>
       /\ (pc = "done" => ~result.sitemap_used /\ result.sitemap_candidates = 0)

\* C9: when every index build of the search fails, the failure is not
\* raised, the queue is primed with exactly the unvisited seeds at priority
\* 10, no sitemap candidate is listed, and the result reports
\* sitemap_used = false and sitemap_candidates = 0.
C9_AllBuildsFail ==
  (tool_name = ToolId /\ indexRaises > 0 /\ indexRaises = indexCalls)
    => /\ sitemap_candidates = <<>>
       /\ \A u \in URLS : <<"[sitemap-match] ", u>> \notin Range(sources)
       /\ (pc = "loop" /\ visitOrder = <<>>)
            => /\ raised = "none"
               /\ \A i \in DOMAIN to_explore :
                    to_explore[i][2] = SeedPriority /\ to_explore[i][1] \in Seeds
               /\ Seeds \ visited_urls \subseteq Pending
       /\ pc = "done" => ~result.sitemap_used /\ result.sitemap_candidates = 0

\* a finished search whose only index build stored a matching URL and then
\* failed, and that explored its seed
C9_BuildFailedSeedsOnly ==
  /\ pc = "done"
  /\ indexCalls = 1 /\ indexRaises = 1
  /\ Host \in DOMAIN index
  /\ \E i \in DOMAIN index[Host] : index[Host][i].score >= min_match_score
  /\ visitOrder # <<>>
  /\ ~result.sitemap_used

\* C10: search with a tool id that is not configured returns the error
\* record, raises nothing, and makes no fetch, index build, cache write or
\* LLM call.
C10_UnknownToolRecord ==
  (pc # "idle" /\ tool_name \notin DOMAIN tools)
    => /\ pc = "done"
       /\ result = [error |-> <<"Tool '", tool_name, "' not found">>,
                    available_tools |-> DOMAIN tools,
                    content |-> "None", sources |-> <<>>]
       /\ raised = "none"
       /\ FetchedUrls = {}
       /\ indexCalls = 0 /\ index = <<>>
       /\ cachePuts = <<>>
       /\ llmCalls = 0 /\ navCalls = <<>>

\* the search of the unknown tool has returned
C10_UnknownToolAsked ==
  /\ pc = "done"
  /\ tool_name = UnknownToolId
  /\ "error" \in DOMAIN result

\* C11 as stated: calls in flight together never make more than one network
\* build, whatever the ttl.
C11_OneBuildForAnyTtl == overlapped => Len(netBuilds) <= 1

\* C11: calls in flight together make one network build, as long as no build
\* raised before storing and no more than ttl seconds have passed since the
\* first build stored its index.
C11_OneBuildWhileFresh ==
  (overlapped /\ buildFailures = 0
     /\ (storedAt # <<>> => now - storedAt[1] <= ttl))
    => Len(netBuilds) <= 1

\* two calls were in flight together on a stale domain; one built, a second
\* passed, and the other returned the stored index
C11_WaiterReturnedStored ==
  /\ overlapped
  /\ \A c \in Callers : callers[c] = "returned"
  /\ Len(netBuilds) = 1
  /\ \E c \in Callers : retAge[c] = <<"age", 1>>

C13_NoTornRead == ~loaded.partial

\* C15: a get that follows the put of its URL returns the page with the
\* arguments of that put, and a put with the arguments of the put before it
\* leaves the cache as it was, fetched_at aside.
C15_PutGetAndRepeat ==
  [][/\ (got' # got /\ puts > 0 /\ got'.url = last_put.url)
          => ArgsOf(got'.page) = last_put
     /\ (puts' = puts + 1 /\ last_put' = last_put)
          => Unstamped(cache') = Unstamped(cache)]_vars

\* the same put was made twice, a second apart, on a cache of two pages, and
\* the get of its URL followed
C15_RepeatedPutThenGet ==
  /\ puts = 3
  /\ Len(cache) = 2
  /\ got.url = last_put.url
  /\ got.page.fetched_at = IsoTime(1)
  /\ cache[1].url = last_put.url
  /\ cache[2].fetched_at = IsoTime(0)

\* C14: once the caller has cancelled the search, at most one more request
\* (fetch, LLM call or index request) is made, and when the cancellation
\* reaches the pending await, search raises it: no handler turns it into a
\* skipped page and goes on.
C14_CancellationStopsSearch ==
  /\ cancel.state # "none" => Requests <= cancel.calls + 1
  /\ cancel.state = "delivered" => (pc = "raised" /\ raised = "CancelledError")

\* a search cancelled during a fetch, with URLs still queued, has raised
C14_CancelledWithQueue ==
  /\ cancel.state = "delivered"
  /\ pc = "raised"
  /\ to_explore # <<>>
  /\ pages_explored < max_pages
  /\ FetchTotal(URLS) > 0
  /\ llmCalls = 0

C17_ContentWithinLimit ==
  (pc = "done" /\ final # NoFinal) =>
    /\ final.length <= max_content_length + MarkerLen
    /\ (result.content = "answer" /\ final.synthesized > max_content_length)
         => (final.marker /\ final.kept = max_content_length)

\* C18: the index an index build stores has at most max_urls_per_domain
\* URLs, and its url_count is their number.
C18_StoredWithinCap ==
  build.phase = "stored" =>
    /\ Len(build.stored.urls) <= build.max_urls_per_domain
    /\ build.stored.url_count = Len(build.stored.urls)

\* C19: every URL of the index stored for a domain has that domain as its
\* host.
C19_StoredOnDomain ==
  build.phase = "stored" =>
    \A i \in DOMAIN build.stored.urls : build.stored.urls[i][1] = DomainLabels

\* C20: every search call ends, with a result or an exception, whatever the
\* navigator recommends, when each of its requests returns or fails.
C20_SearchTerminates == <>(pc \in {"done", "raised"})

\* a search has ended with a URL it had visited still in its queue
C20_EndedWithVisitedQueued ==
  /\ pc = "done"
  /\ pages_explored = max_pages
  /\ \E i \in DOMAIN to_explore : to_explore[i][1] \in visited_urls

\* C21: the exploration loop is left only after a decision reported
\* sufficiency, with pages_explored at max_pages, or with the queue empty;
\* the synthesis call is made only after the loop was left, and no fetch or
\* navigator call follows it.
C21_LoopLeftInThreeWays ==
  /\ (pc \in {"done", "raised"} /\ GetTool(tool_name).found)
       => (has_sufficient \/ pages_explored >= max_pages \/ to_explore = <<>>)
  /\ llmCalls > Len(navCalls) => pc \in {"done", "raised"}

\* C22: under every interleaving of enqueues and pops, the entries popped
\* from the sorted list are the entries popped from a min-heap keyed on
\* (priority, insertion number), in the same order.
C22_ListPopsAsHeap == frontier.out = frontier.heap_out

\* after a pop, two entries of one priority below that of the entry popped
\* first were enqueued, a different URL each, and came out in insertion order
C22_TiesPoppedFifo ==
  /\ Len(frontier.out) = 3
  /\ frontier.out[1][2] > frontier.out[2][2]
  /\ frontier.out[2][2] = frontier.out[3][2]
  /\ frontier.out[2][1] # frontier.out[3][1]
  /\ frontier.list # <<>>

\* C23: pages_explored of the result counts no more than the pages this
\* search requested from the web fetcher: pages taken from the cache, before
\* the loop or at a pop, are not counted.
C23_CountsFetchedPagesOnly ==
  (pc = "done" /\ "pages_explored" \in DOMAIN result)
    => result.pages_explored <= FetchTotal(URLS)

\* C24: the construction of a page cache over a file that exists and cannot
\* be read or parsed raises.
C24_UnusableFileRaises == loaded.failed # "none" => loaded.raised # "none"

\* the recommended link a is due before the recommended link b: it comes
\* from an earlier page, or from the same page at a smaller index
DueBefore(a, b) ==
  \/ RecPage(a) < RecPage(b)
  \/ RecPage(a) = RecPage(b) /\ RecIndex(a) < RecIndex(b)

\* C25: whenever a recommended link has been explored, every link
\* recommended by an earlier page, and every link of smaller index of the
\* same decision, was explored before it (none of them is explored later
\* or still queued).
C25_RecommendationsInOrder ==
  \A j \in DOMAIN recs.order :
    RecPage(recs.order[j]) > 0 =>
      /\ \A i \in j + 1..Len(recs.order) :
           ~DueBefore(recs.order[i], recs.order[j])
      /\ \A i \in DOMAIN recs.to_explore :
           ~DueBefore(recs.to_explore[i][1], recs.order[j])

\* floor of v / 10
FloorDiv10(v) == IF v >= 0 THEN v \div 10 ELSE -((-v + 9) \div 10)

\* C26: a sitemap candidate of any score is enqueued, at the priority
\* max(0, min(9, floor(10 - score))), which is in 0..9; a seed is enqueued
\* at priority 10, above every candidate's.
C26_CandidatePriorityClamped ==
  /\ priming.kind = "candidate" =>
       /\ priming.raised = "none"
       /\ priming.priority = Max(0, Min(9, FloorDiv10(100 - priming.score)))
       /\ priming.priority \in 0..9
  /\ priming.kind = "seed" => priming.priority = 10 /\ priming.priority > 9

\* the indexed URLs of the tool's domains that reach min_match_score, with
\* their scores
Qualifying ==
  {<<index[d][i].url, index[d][i].score>> :
     <<d, i>> \in {di \in (DOMAIN index) \X (1..NumPaths) :
                     /\ di[1] \in Range(Domains(GetTool(tool_name).sources))
                     /\ di[2] \in DOMAIN index[di[1]]
                     /\ index[di[1]][di[2]].score >= min_match_score}}

\* C27: once a search whose index builds all succeeded has primed its
\* frontier, its sitemap candidates are distinct URLs in descending score
\* order, all of them qualifying, and they are all the qualifying URLs or
\* max_url_candidates of them that no left-out URL outscores.
C27_CandidatesTopDistinct ==
  (pc # "idle" /\ GetTool(tool_name).found /\ sitemap_enabled /\ indexRaises = 0) =>
    /\ \A i, j \in DOMAIN sitemap_candidates :
         i < j => /\ sitemap_candidates[i][1] # sitemap_candidates[j][1]
                  /\ sitemap_candidates[i][2] >= sitemap_candidates[j][2]
    /\ Range(sitemap_candidates) \subseteq Qualifying
    /\ \/ Range(sitemap_candidates) = Qualifying
       \/ /\ Len(sitemap_candidates) = max_url_candidates
          /\ \A q \in Qualifying \ Range(sitemap_candidates) :
               \A i \in DOMAIN sitemap_candidates : q[2] <= sitemap_candidates[i][2]

\* the page popped last was fetched, not answered by the cache, and the
\* fetch gave content
FetchedWithContent == cached_page = NoPage /\ fetch_result.content # ""

\* the URLs the search answered from the cache when it popped them
CacheHits == {u \in Range(navCalls) : fetchCalls[u] = 0}

\* C28: in every step of a search, the cache is written exactly when the
\* iteration of a fetched page with content ends, the page is stored under
\* its URL with the summary of the decision the navigator step returned, and
\* the entry of a URL answered by a cache hit stays as it was.
C28_PutStep ==
  /\ cachePuts' # cachePuts =>
       /\ pc = "navigating" /\ FetchedWithContent
       /\ cachePuts' = Append(cachePuts, current_url)
       /\ CacheGet(cache', current_url).summary =
            (IF lastNav'.safe_default THEN fetch_result.title ELSE LlmSummary)
  /\ (pc = "navigating" /\ pc' # "navigating" /\ FetchedWithContent) =>
       /\ cachePuts' # cachePuts
       /\ CacheGet(cache', current_url) # NoPage
  /\ cache' # cache => cachePuts' # cachePuts
  /\ \A u \in CacheHits : CacheGet(cache', u) = CacheGet(cache, u)
C28_CacheWrittenForFetchedPages == [][C28_PutStep]_vars

\* the URLs recorded in sources with the [cached] mark
CachedMarked == {src[2] : src \in {x \in Range(sources) : x[1] = "[cached] "}}

\* C29: in a search that has primed its frontier, every URL marked [cached]
\* is the URL of a page find_similar returns for a domain of the tool, at
\* most three of them per domain; it is in visited and its page in collected;
\* and it is not queued, was not fetched and was not given to the navigator.
C29_PrefetchedNeverExplored ==
  (pc # "idle" /\ GetTool(tool_name).found) =>
    LET domains == Range(Domains(GetTool(tool_name).sources))
    IN /\ \A u \in CachedMarked :
            /\ \E d \in domains : CacheGet(cache, u) \in Range(FindSimilar(cache, d))
            /\ u \in visited_urls
            /\ \E i \in DOMAIN collected_content :
                 collected_content[i] = [url |-> u, content |-> CacheGet(cache, u).content]
            /\ \A i \in DOMAIN to_explore : to_explore[i][1] # u
            /\ u \in URLS => fetchCalls[u] = 0
            /\ u \notin Range(navCalls)
            /\ u \notin Range(visitOrder)
       /\ \A d \in domains :
            Cardinality({u \in CachedMarked : CacheGet(cache, u).domain = d}) <= 3

\* a finished search over a cache of four similar pages of its domain:
\* three were taken, one of them a seed, and the fourth was left
C29_ThreeTakenOneLeft ==
  /\ pc = "done"
  /\ cachePuts = <<>>
  /\ Cardinality(CachedMarked) = 3
  /\ CachedMarked \cap Seeds # {}
  /\ \E i \in DOMAIN cache : SimilarScore(cache[i]) > 0 /\ cache[i].url \notin CachedMarked

\* the discovery steps in their order
DiscoveryOrder == <<"sitemap.xml", "sitemap_index.xml", "www/sitemap.xml", "robots.txt">>

\* the step can give sitemap entries on the site
StepGivesUrls(st, step) ==
  IF step = "robots.txt" THEN st.robots = "ref_urls" ELSE st.answers[step] = "urls"

\* C30: a stored index came from the crawl only if no discovery step of
\* the site gives sitemap entries; the steps were tried in the order
\* sitemap.xml, sitemap_index.xml, robots.txt; and source_type is "sitemap"
\* exactly for sitemap entries, "crawl" exactly for a crawl's result.
C30_CrawlOnlyAfterDiscoveryFailed ==
  discovery.phase = "stored" =>
    /\ discovery.source_type = "crawl" =>
         \A step \in {"sitemap.xml", "sitemap_index.xml", "robots.txt"} :
           ~StepGivesUrls(discovery.site, step)
    /\ \A i, j \in DOMAIN discovery.tried :
         i < j => \E a, b \in DOMAIN DiscoveryOrder :
                    /\ a < b
                    /\ DiscoveryOrder[a] = discovery.tried[i]
                    /\ DiscoveryOrder[b] = discovery.tried[j]
    /\ discovery.source_type = "sitemap" <=> discovery.urls = SitemapEntries
    /\ discovery.source_type = "crawl" <=> discovery.urls \in CrawlResults

\* the URLs of a list of (url, depth) items
UrlsOf(items) == {items[i][1] : i \in DOMAIN items}

\* C31: in a crawl no URL is fetched twice, a batch holds at most
\* parallel_fetch_limit URLs, every fetched (hence every recorded) URL has
\* depth at most crawl_depth, the recorded URLs are the fetched ones whose
\* fetch did not fail, and the crawl ends only at the cap or on an empty
\* queue.
C31_CrawlBounded ==
  build.phase \in {"gather", "stored"} =>
    /\ \A i, j \in DOMAIN build.fetched :
         i # j => build.fetched[i][1] # build.fetched[j][1]
    /\ Len(build.batch) <= build.parallel_fetch_limit
    /\ \A i \in DOMAIN build.fetched : build.fetched[i][2] <= crawl_depth
    /\ Range(build.urls) = (UrlsOf(build.fetched) \ build.failed) \ UrlsOf(build.batch)
    /\ build.phase = "stored" =>
         Len(build.urls) >= build.max_urls_per_domain \/ build.to_visit = <<>>

\* a crawl that lost a page to a failed fetch, went on to the deepest
\* level allowed in batches of two, and ended on an empty queue
C31_FailedPageDeepCrawl ==
  /\ build.phase = "stored"
  /\ build.failed # {}
  /\ build.batches < Len(build.fetched)
  /\ \E i \in DOMAIN build.fetched : build.fetched[i][2] = crawl_depth
  /\ Len(build.urls) >= crawl_depth
  /\ Len(build.urls) < build.max_urls_per_domain

\* the searcher whose put of the URL came last
LastWriter(u) ==
  LET at == {k \in DOMAIN duo.writes : duo.writes[k][2] = u}
  IN duo.writes[CHOOSE k \in at : \A m \in at : m <= k][1]

\* C32: of two searches under way on one engine, each fetches a URL at most
\* once, each page it fetched and analysed is written to the cache, the
\* cache holds for every written URL one entry, that of the later put, and
\* each search's visited set and page count are those of its own pops.
C32_TwoSearchesShareCache ==
  duo.s # <<>> =>
    /\ \A i \in Searchers :
         LET me == duo.s[i]
         IN /\ \A a, b \in DOMAIN me.fetches : a # b => me.fetches[a] # me.fetches[b]
            /\ me.visited_urls = Range(me.order)
            /\ me.pages_explored = Len(me.order)
            /\ me.pages_explored <= MaxPages
            /\ \A k \in DOMAIN me.to_explore :
                 me.to_explore[k][2] = SeedPriority
                 \/ me.to_explore[k][2] \div 10 \in 1..me.pages_explored
            /\ \A u \in Range(me.fetches) \ me.failed :
                 (me.pc \in {"loop", "done"} \/ me.current_url # u)
                   => <<i, u>> \in Range(duo.writes)
    /\ \A u \in {duo.writes[k][2] : k \in DOMAIN duo.writes} :
         /\ Cardinality({k \in DOMAIN duo.cache : duo.cache[k].url = u}) = 1
         /\ CacheGet(duo.cache, u).summary = SummaryOf(LastWriter(u))

\* both searches fetched the seed and wrote it, the second put being that
\* of searcher 1, and the page of another URL one of them wrote is held
C32_BothWroteTheSeed ==
  /\ duo.s # <<>>
  /\ \A i \in Searchers : <<i, <<Host, 1>>>> \in Range(duo.writes)
  /\ LastWriter(<<Host, 1>>) = 1
  /\ \E k \in DOMAIN duo.writes : duo.writes[k][2] = <<Host, 2>>
  /\ CacheGet(duo.cache, <<Host, 2>>) # NoPage

\* C33: a compress call does not raise, and when compression is disabled,
\* no client is available, the content is shorter than min_content_length or
\* the service call fails, it returns the content unchanged with
\* was_compressed = false.
C33_CompressNeverRaises ==
  compressor.phase = "called" =>
    /\ ~compressor.result.raised
    /\ (\/ ~compressor.enabled
        \/ ~IsAvailable(compressor)
        \/ Len(compressor.content) < compressor.min_content_length
        \/ compressor.call # "ok")
         => /\ ~compressor.result.was_compressed
            /\ compressor.result.compressed_text = compressor.content

\* a call on a long enough content with a client, whose service call raised
\* an exception that is none of the library's
C33_ServiceRaisedUnexpected ==
  /\ compressor.phase = "called"
  /\ IsAvailable(compressor)
  /\ Len(compressor.content) >= compressor.min_content_length
  /\ compressor.call = "Exception"
  /\ compressor.content # <<>>

\* visited holds the prefetched URLs and one URL for each page counted
C34_Counts ==
  (pc # "idle" /\ GetTool(tool_name).found) =>
    /\ Cardinality(visited_urls) = Cardinality(CachedMarked) + pages_explored
    /\ 0 <= pages_explored /\ pages_explored <= max_pages

\* the loop is about to pop a URL that is in visited
PopsVisited ==
  /\ pc = "loop"
  /\ LoopCondition
  /\ SortStable(to_explore, 1)[1][1] \in visited_urls

\* C34: after every step of a search the size of visited is the number of
\* prefetched URLs plus pages_explored, which lies in 0..max_pages; and a
\* step that pops a visited URL removes that entry from the frontier and
\* leaves visited, pages_explored, collected, sources and the cache alone.
C34_VisitedCountsAndSkips ==
  [][/\ C34_Counts'
     /\ PopsVisited =>
          /\ to_explore' = Tail(SortStable(to_explore, 1))
          /\ UNCHANGED <<visited_urls, pages_explored, collected_content, sources,
                         cache>>]_vars

\* a finished search with a prefetched page, whose seed was also a sitemap
\* candidate: the seed was explored once and both its entries were popped
C34_SecondEntrySkipped ==
  /\ pc = "done"
  /\ to_explore = <<>>
  /\ CachedMarked # {}
  /\ pages_explored = max_pages
  /\ \E u \in Seeds : /\ <<"[sitemap-match] ", u>> \in Range(sources)
                      /\ u \in Range(visitOrder)

\* the hosts of the tool's web sources
ConfiguredDomains == Range(Domains(GetTool(tool_name).sources))

\* C35: every URL queued for fetching and every URL passed to the web
\* fetcher has a host that is one of the tool's configured domains.
C35_FetchesStayOnConfiguredHosts ==
  (pc \notin {"idle", "raised"} /\ GetTool(tool_name).found) =>
    /\ \A i \in DOMAIN to_explore : Netloc(to_explore[i][1]) \in ConfiguredDomains
    /\ pc = "fetching" => Netloc(current_url) \in ConfiguredDomains

\* C36: sources and collected grow in lock-step: they have the same length
\* throughout a search, and a result whose content is "No relevant
\* documentation found." lists no source.
C36_SourcesMatchCollected ==
  (pc \in {"loop", "fetching", "navigating", "done"} /\ GetTool(tool_name).found) =>
    /\ Len(sources) = Len(collected_content)
    /\ (pc = "done" /\ result.content = "No relevant documentation found.")
         => result.sources = <<>>

\* C37: every page a search stored in the cache, on a host the tool is
\* configured with, has that host as its domain field, so find_similar for
\* the host returns the page when it shares a word with the query.
C37_StoredUnderOwnHost ==
  \A i \in DOMAIN cache :
    (cache[i].url \in Range(cachePuts) /\ Netloc(cache[i].url) \in ConfiguredDomains) =>
      /\ cache[i].domain = Netloc(cache[i].url)
      /\ SimilarScore(cache[i]) > 0
           => cache[i] \in Range(FindSimilar(cache, Netloc(cache[i].url)))

\* the explored URLs that only a navigator can have queued
RecommendedOnly(order) ==
  {k \in DOMAIN order : order[k] \notin Seeds \cup CandidateUrls}

\* every seed is prefetched or explored before each explored link
SeedsBeforeLinks ==
  \A k \in RecommendedOnly(visitOrder) :
    Seeds \subseteq Prefetched \cup {visitOrder[j] : j \in 1..(k - 1)}

\* C38: the entries a decision appends to the frontier have priority >= 10
\* and stand behind the entries already queued, and whenever a recommended
\* link has been explored every seed was prefetched or explored before it.
C38_SeedsBeforeRecommended ==
  [][/\ SeedsBeforeLinks'
     /\ pc = "navigating" =>
          /\ Len(to_explore') >= Len(to_explore)
          /\ SubSeq(to_explore', 1, Len(to_explore)) = to_explore
          /\ \A i \in (Len(to_explore) + 1)..Len(to_explore') :
                to_explore'[i][2] >= SeedPriority]_vars

\* both seeds were explored, the second one after the first page's decision
\* had queued a link of the same priority, which is still waiting
C38_SeedWonTheTie ==
  /\ pc = "done"
  /\ Len(visitOrder) = 2
  /\ Range(visitOrder) = Seeds
  /\ \E i \in DOMAIN to_explore :
       /\ to_explore[i][2] = SeedPriority
       /\ to_explore[i][1] \notin Seeds \cup CandidateUrls \cup visited_urls

\* the index of the host is the one a failed crawl stores, and is still fresh
EmptyAndFresh ==
  /\ Host \in DOMAIN domain_index
  /\ domain_index[Host].source_type = "crawl"
  /\ domain_index[Host].urls = <<>>
  /\ domain_index[Host].url_count = 0
  /\ domain_index[Host].indexed_at[1] = "iso"
  /\ now - domain_index[Host].indexed_at[2] <= ttl

\* C39: a build that finds no sitemap entry and whose crawl fetches all fail
\* raises nothing before the store: it stores a crawl index without URLs,
\* stamped now, and the call returns unless writing the index file raised;
\* while that index is no older than the ttl every call that gets the lock
\* returns it, starts no build, and the index gives no candidate.
C39_EmptyIndexStoredAndKept ==
  [][\A c \in Callers :
       /\ (callers[c] = "building" /\ callers'[c] # "building") =>
            /\ domain_index'[Host] = DomainIndex(now, <<>>, "crawl")
            /\ callers'[c] \in {"returned", "save_raised"}
            /\ buildFailures' = buildFailures
       /\ (callers[c] = "waiting" /\ callers'[c] # "waiting" /\ EmptyAndFresh) =>
            /\ callers'[c] = "returned"
            /\ UNCHANGED <<netBuilds, domain_index, storedAt>>
            /\ FindRelevantUrls((Host :> domain_index[Host].urls), Host,
                                max_url_candidates) = <<>>]_vars

\* one call built the empty index and a later one returned it, a second
\* after it was stored, without another build
C39_LaterCallGotEmptyIndex ==
  /\ \A c \in Callers : callers[c] = "returned"
  /\ Len(netBuilds) = 1
  /\ EmptyAndFresh
  /\ now > domain_index[Host].indexed_at[2]
  /\ storedAt = <<domain_index[Host].indexed_at[2]>>

\* C40: after every put or clear of the cache that returned, a new instance
\* loads from the cache file exactly the entries in memory, the same for the
\* index after every build or clear that returned, and get, find_similar,
\* find_relevant_urls and the stats change neither a map nor a file.
C40_FileEqualsMap ==
  [][LET last == index_file'.last
     IN /\ (last.on = "cache" /\ last.op \in {"put", "clear"} /\ last.completed) =>
             LoadedCache(disk') = cache'
        /\ (last.on = "index" /\ last.op \in {"build", "clear"} /\ last.completed) =>
             LoadIndex(index_file'.file) = domain_index'
        /\ last.op \in {"get", "find_similar", "find_relevant", "stats"} =>
             /\ UNCHANGED <<cache, disk, domain_index>>
             /\ index_file'.file = index_file.file]_vars

====
